---- MODULE Spec2Model ----
(***************************************************************************)
(* Model of the embedded NoSQL engine of src/nosql.js: the per-database    *)
(* operation scheduler (DP.next), the passes it starts ($append, $update,  *)
(* $remove, $reader, $reader3, $streamer, $clear, $clean, $lock, $drop),   *)
(* the event loop that runs them (setImmediate queue, I/O completions) and *)
(* the data file they work on.                                             *)
(***************************************************************************)
EXTENDS Integers, Sequences, FiniteSets, TLC

\* ------------------------------------------------------------------ bounds
\* number of user calls (insert, update, remove, find, ...) in one behaviour
\* that draws them from every kind of call; behaviours that draw from fewer
\* kinds make up to MaxOps + 2 calls (see Workloads)
MaxOps == 2
\* number of documents in the data file when the database is opened
MaxInitDocs == 1
\* number of lines of a file on which a single pass is checked
MaxLines == 2

\* ------------------------------------------------------- program constants
\* nosql.js:82 sets JSONBUFFER to 20 (40 in the worker); the model scales the
\* batch size down so that a pass of several batches fits within MaxOps.
JSONBUFFER == 2

\* step numbers of DP.next (nosql.js:1135-1148)
NEXTWAIT == {7, 8, 9, 12, 13, 14}

VARIABLES
    step,               \* self.step
    writting,           \* self.$writting
    reading,            \* self.$reading
    pending_append,     \* self.pending_append
    pending_update,
    pending_remove,
    pending_reader,
    pending_reader2,
    pending_streamer,
    pending_clean,
    pending_clear,
    pending_locks,
    pending_drops,      \* self.pending_drops (a flag)
    immediates,         \* the event loop's setImmediate queue (FIFO)
    io,                 \* passes waiting for an I/O completion
    inodes,             \* contents of every file the data path has named
    cur,                \* index in inodes of the file at self.filename, 0: none
    nops,               \* user calls made so far
    called,             \* job id -> number of times its callback was invoked
    result,             \* job id -> what a reader delivered to the callback
    log,                \* history: payloads of Fs.appendFile, documents removed
    readonly,           \* self.readonly
    docsbuffer,         \* fs.docsbuffer: a line of the data file as text
                        \* (doc) and how the last update wrote it (was)
    counter,            \* the Counter of the database, its timers, its file
    workload            \* the user calls of this behaviour: how many, which

\* the state of the Database object, its file and its event loop
database == <<step, writting, reading, pending_append, pending_update,
              pending_remove, pending_reader, pending_reader2, pending_streamer,
              pending_clean, pending_clear, pending_locks, pending_drops,
              immediates, io, inodes, cur, nops, called, result, log, readonly,
              workload>>

vars == <<database, docsbuffer, counter>>

\* the elements of a sequence
Range(vals) == {vals[i] : i \in 1..Len(vals)}

\* ------------------------------------------------------------- documents
\* A document is a record [id, v]; v is a string, a sequence of characters.
\* "e_acute" stands for a character of two UTF-8 bytes.
\* NoDoc stands for undefined, NullDoc for null.
NoDoc == [id |-> 0, v |-> <<>>]
NullDoc == [id |-> 0 - 1, v |-> <<>>]

Vals == {<<"a">>, <<"b">>, <<"e_acute">>, <<"a", "a">>, <<"b", "b">>}

CharBytes(c) == IF c = "e_acute" THEN 2 ELSE 1

RECURSIVE ByteLength(_)
ByteLength(str) ==
    IF str = <<>> THEN 0 ELSE CharBytes(Head(str)) + ByteLength(Tail(str))

Digit(n) == <<"0", "1", "2", "3", "4", "5", "6", "7", "8", "9">>[n + 1]

RECURSIVE NumberText(_)
NumberText(n) ==
    IF n < 10 THEN <<Digit(n)>> ELSE NumberText(n \div 10) \o <<Digit(n % 10)>>

\* JSON.stringify(doc).replace(REGBOOL, JSONBOOL) for a document {id, v}
stringify(doc) ==
    <<"{", "\"", "i", "d", "\"", ":">> \o NumberText(doc.id)
      \o <<",", "\"", "v", "\"", ":", "\"">> \o doc.v \o <<"\"", "}">>

\* ------------------------------------------------- the text of a document
\* The encoding of a document {s: <string>, b: <boolean>, c: <boolean>} as
\* text, a sequence of characters.

\* nosql.js:62: the pattern of REGBOOL
REGBOOL == <<"\"", ":", "t", "r", "u", "e">>

\* nosql.js:60
JSONBOOL == <<"\"", ":", "t", "r", "u", "e", " ">>

\* String.prototype.replace(REGBOOL, JSONBOOL): every match, left to right
RECURSIVE replace(_)
replace(text) ==
    IF Len(text) < Len(REGBOOL) THEN text
    ELSE IF SubSeq(text, 1, Len(REGBOOL)) = REGBOOL
         THEN JSONBOOL \o replace(SubSeq(text, Len(REGBOOL) + 1, Len(text)))
         ELSE <<Head(text)>> \o replace(Tail(text))

\* JSON.stringify of a document {s, b, c}: the quotes and backslashes of a
\* string are escaped
JSON_stringify(doc) ==
    LET RECURSIVE quote(_)
        quote(str) ==
            IF str = <<>> THEN <<>>
            ELSE (IF Head(str) \in {"\"", "\\"} THEN <<"\\", Head(str)>>
                  ELSE <<Head(str)>>) \o quote(Tail(str))
        boolean(b) == IF b THEN <<"t", "r", "u", "e">>
                      ELSE <<"f", "a", "l", "s", "e">>
    IN  <<"{", "\"", "s", "\"", ":", "\"">> \o quote(doc.s)
          \o <<"\"", ",", "\"", "b", "\"", ":">> \o boolean(doc.b)
          \o <<",", "\"", "c", "\"", ":">> \o boolean(doc.c) \o <<"}">>

\* JSON.parse of the text of a document {s, b, c}.  unquote reads a string
\* literal after its opening quote and gives the string and the text after
\* the closing quote; literal reads true or false and the white space that
\* may follow.
JSON_parse(text) ==
    LET RECURSIVE unquote(_, _)
        unquote(t, str) ==
            IF Head(t) = "\"" THEN [str |-> str, rest |-> Tail(t)]
            ELSE IF Head(t) = "\\"
                 THEN unquote(Tail(Tail(t)), Append(str, t[2]))
                 ELSE unquote(Tail(t), Append(str, Head(t)))
        RECURSIVE skip(_)
        skip(t) == IF t # <<>> /\ Head(t) = " " THEN skip(Tail(t)) ELSE t
        literal(t) ==
            IF Head(t) = "t"
            THEN [val |-> TRUE, rest |-> skip(SubSeq(t, 5, Len(t)))]
            ELSE [val |-> FALSE, rest |-> skip(SubSeq(t, 6, Len(t)))]
        s == unquote(SubSeq(text, 7, Len(text)), <<>>)
        b == literal(SubSeq(s.rest, 6, Len(s.rest)))
        c == literal(SubSeq(b.rest, 6, Len(b.rest)))
    IN  [s |-> s.str, b |-> b.val, c |-> c.val]

\* ------------------------------------------------- the text of a table row
\* A row of a table with the schema a:string|b:string|n:number, as text.
\* "LF" and "CR" stand for the characters \n and \r.

\* nosql.js:6844-6854: regtescape over REGTESCAPE, every | \n \r of the text
RECURSIVE regtescape(_)
regtescape(val) ==
    IF val = <<>> THEN <<>>
    ELSE (CASE Head(val) = "LF" -> <<"%", "0", "A">>
            [] Head(val) = "CR" -> <<"%", "0", "D">>
            [] Head(val) = "|"  -> <<"%", "7", "C">>
            [] OTHER -> <<Head(val)>>) \o regtescape(Tail(val))

\* nosql.js:6832-6842: regtescapereverse over REGTUNESCAPE, every %0A %0D
\* %7C of the text, left to right
RECURSIVE regtescapereverse(_)
regtescapereverse(val) ==
    IF Len(val) < 3 THEN val
    ELSE LET c == SubSeq(val, 1, 3)
             rest == SubSeq(val, 4, Len(val))
         IN  CASE c = <<"%", "0", "A">> -> <<"LF">> \o regtescapereverse(rest)
               [] c = <<"%", "0", "D">> -> <<"CR">> \o regtescapereverse(rest)
               [] c = <<"%", "7", "C">> -> <<"|">> \o regtescapereverse(rest)
               [] OTHER -> <<Head(val)>> \o regtescapereverse(Tail(val))

\* nosql.js:6789-6831: a string cell is tested (REGTESCAPETEST) and escaped
\* only while esc is false, so only the first cell that needs it is escaped
TP_stringify(doc) ==
    LET test(val) == \E i \in 1..Len(val) : val[i] \in {"|", "LF", "CR"}
        a == IF test(doc.a) THEN regtescape(doc.a) ELSE doc.a
        b == IF ~test(doc.a) /\ test(doc.b) THEN regtescape(doc.b) ELSE doc.b
    IN  <<IF test(doc.a) \/ test(doc.b) THEN "*" ELSE "+">>
          \o <<"|">> \o a \o <<"|">> \o b \o <<"|">> \o NumberText(doc.n)

\* String.prototype.split(c): the pieces of the text between the c
RECURSIVE split(_, _)
split(text, c) ==
    LET at == {i \in 1..Len(text) : text[i] = c} IN
    IF at = {} THEN <<text>>
    ELSE LET i == CHOOSE i \in at : \A j \in at : i <= j
         IN  <<SubSeq(text, 1, i - 1)>> \o split(SubSeq(text, i + 1, Len(text)), c)

\* the value of +text for a cell: a number of one digit, 0 for the empty
\* text, NaN (here -1) for any other
ToNumber(text) ==
    IF text = <<>> THEN 0
    ELSE IF Len(text) = 1 /\ \E n \in 0..9 : text = <<Digit(n)>>
         THEN CHOOSE n \in 0..9 : text = <<Digit(n)>>
         ELSE 0 - 1

\* nosql.js:6740-6787 on data.line = line.split('|') (5901): a cell that is
\* missing is undefined, here the empty text
TP_parseData(line) ==
    LET cells == split(line, "|")
        cell(pos) == IF pos + 1 <= Len(cells) THEN cells[pos + 1] ELSE <<>>
        esc == cells[1] = <<"*">>
        string(val) == IF esc /\ val # <<>> THEN regtescapereverse(val) ELSE val
    IN  [a |-> string(cell(1)), b |-> string(cell(2)), n |-> ToNumber(cell(3))]

\* no line yet
NoRec == [doc |-> <<>>, was |-> "none", updates |-> 0]

\* ------------------------------------------------------------ the data file
\* A line of the file: the document it encodes and whether its first byte
\* has been overwritten with '-' (a tombstone).
Line(doc) == [doc |-> doc, del |-> FALSE]

LiveDocs(lines) ==
    LET live == SelectSeq(lines, LAMBDA l : ~l.del)
    IN  [i \in 1..Len(live) |-> live[i].doc]

\* the content a stream opened on inode ino reads (no file: an empty stream)
Content(s, ino) == IF ino = 0 THEN <<>> ELSE s.inodes[ino]

\* builder.compile(): the predicate of a builder, 0: no condition, k > 0:
\* where('id', k)
compare(filter, doc) == filter = 0 \/ doc.id = filter

\* --------------------------------------------------- $update: the file pass
\* An update job: [id, filter, first, val, count, skip, throws, insert]; it
\* is a modify job with keys = ['v'] and doc = {v: val}.  throws is the id of
\* the document on which the job's filter function throws (0: on none),
\* insert is the document to insert when nothing matches (NoDoc: none).

\* mutant: the byte lengths alone decide
inplace_bytes(recdoc, upd) == ByteLength(recdoc) = ByteLength(upd)

\* nosql.js:1491-1497: the new encoding is written in place when it has the
\* original line's character length and byte length
inplace(recdoc, upd) ==
    Len(recdoc) = Len(upd) /\ ByteLength(recdoc) = ByteLength(upd)

\* nosql.js:1417-1470: every job of the batch is tried on one document
RECURSIVE update_jobs(_, _, _)
update_jobs(filter, i, acc) ==
    IF i > Len(filter) THEN acc
    ELSE LET item == acc.filter[i] IN
         IF item.skip THEN update_jobs(filter, i + 1, acc)
         ELSE IF item.throws = acc.doc.id THEN [acc EXCEPT !.thrown = item.id]
         ELSE IF ~compare(item.filter, acc.doc)
         THEN update_jobs(filter, i + 1, acc)
         ELSE update_jobs(filter, i + 1,
                [filter  |-> [acc.filter EXCEPT ![i] =
                                [item EXCEPT !.count = @ + 1,
                                             !.skip = item.first]],
                 filters |-> acc.filters + (IF item.first THEN 1 ELSE 0),
                 doc     |-> [acc.doc EXCEPT !.v = item.val],
                 is      |-> TRUE,
                 thrown  |-> 0])

\* mutant: the scan stops as soon as one first() job has matched
update_full_any(filters, length) == filters > 0

\* nosql.js:1507-1508: the scan stops when every job of the batch is a
\* first() job that has matched
update_full(filters, length) == filters = length

\* nosql.js:1405-1509: fs.ondocuments over the live lines of the file.
\* acc: [lines, tail, filter, filters, stop, thrown]; lines are written in
\* place, tail collects what fs.write2 appends at end of file.  An exception
\* of a filter function (thrown: the job) leaves the handler.
RECURSIVE update_scan(_, _)
update_scan(k, acc) ==
    IF k > Len(acc.lines) \/ acc.stop THEN acc
    ELSE LET rec == acc.lines[k] IN
         IF rec.del THEN update_scan(k + 1, acc)
         ELSE LET r == update_jobs(acc.filter, 1,
                         [filter |-> acc.filter, filters |-> acc.filters,
                          doc |-> rec.doc, is |-> FALSE, thrown |-> 0])
                  upd == stringify(r.doc)
                  recdoc == stringify(rec.doc)
                  acc1 == [acc EXCEPT !.filter = r.filter, !.filters = r.filters]
                  full == update_full(r.filters, Len(acc.filter))
              IN  IF r.thrown # 0
                  THEN [acc EXCEPT !.stop = TRUE, !.thrown = r.thrown]
                  ELSE IF ~r.is
                  THEN update_scan(k + 1, [acc1 EXCEPT !.stop = full])
                  ELSE IF upd = recdoc THEN update_scan(k + 1, acc1)
                  ELSE IF inplace(recdoc, upd)
                       THEN update_scan(k + 1,
                              [acc1 EXCEPT !.lines[k].doc = r.doc, !.stop = full])
                       ELSE update_scan(k + 1,
                              [acc1 EXCEPT !.lines[k].del = TRUE,
                                           !.tail = Append(@, r.doc),
                                           !.stop = full])

\* the whole pass over a file: the lines after it (the appended tail is
\* flushed at the end of the session) and the jobs with their counts
update_pass(lines, filter) ==
    LET acc == update_scan(1, [lines |-> lines, tail |-> <<>>, filter |-> filter,
                               filters |-> 0, stop |-> FALSE, thrown |-> 0])
    IN  [lines  |-> acc.lines \o [i \in 1..Len(acc.tail) |-> Line(acc.tail[i])],
         filter |-> acc.filter,
         thrown |-> acc.thrown]

\* --------------------------------------------------- $remove: the file pass
\* A remove job: [id, filter, backup, count].
RECURSIVE remove_match(_, _, _)
remove_match(filter, doc, i) ==
    IF i > Len(filter) THEN 0
    ELSE IF compare(filter[i].filter, doc) THEN i
    ELSE remove_match(filter, doc, i + 1)

\* nosql.js:2301-2341
RECURSIVE remove_scan(_, _)
remove_scan(k, acc) ==
    IF k > Len(acc.lines) THEN acc
    ELSE LET rec == acc.lines[k]
             m == remove_match(acc.filter, rec.doc, 1)
             backup == \E i \in 1..Len(acc.filter) : acc.filter[i].backup
             \* the backup loop leaves `item` at the last job of the batch
             item == IF backup THEN Len(acc.filter) ELSE m
         IN  IF rec.del \/ m = 0 THEN remove_scan(k + 1, acc)
             ELSE remove_scan(k + 1,
                    [acc EXCEPT !.lines[k].del = TRUE,
                                !.filter[item].count = @ + 1])

remove_pass(lines, filter) == remove_scan(1, [lines |-> lines, filter |-> filter])

\* -------------------------------------------------- $reader2: the file pass
\* A reader job: [id, filter, first, take, skip, type, nan, count, counter,
\* response, listing]: the builder's condition and
\* $options.first/take/skip/listing, the
\* job's type (1 for DP.count), and nan = TRUE for a job pushed without a
\* counter field (DP.one, DP.count), whose item.counter++ yields NaN.

\* A scalar value of JavaScript: undefined, a number or an object (the map
\* of a group scalar, from values to numbers).
undefined == [def |-> FALSE, obj |-> FALSE, num |-> 0, map |-> <<>>]
Number(n) == [def |-> TRUE, obj |-> FALSE, num |-> n, map |-> <<>>]
Object(m) == [def |-> TRUE, obj |-> TRUE, num |-> 0, map |-> m]
\* the value null
null == [def |-> FALSE, obj |-> TRUE, num |-> 0, map |-> <<>>]

\* the value of a condition: undefined and 0 are false
truthy(x) == x.def /\ (x.obj \/ x.num # 0)

\* nosql.js:1715, 1719: output[builder.$options.scalarfield] || 0
orzero(x) == IF truthy(x) THEN x ELSE Number(0)

\* output[builder.$options.scalarfield]: the documents of a scalar query
\* have a field f: <<n>> for the number n, <<>> when the field is missing
scalarfield(doc) == IF doc.f = <<>> THEN undefined ELSE Number(doc.f[1])

\* nosql.js:1710-1751: the switch on builder.$options.scalar (count, sum,
\* min, max, group), from item.scalar to its next value
scalar_switch(type, scalar, doc) ==
    LET val == scalarfield(doc) IN
    CASE type = "count" ->
           IF truthy(scalar) THEN Number(scalar.num + 1) ELSE Number(1)
      [] type = "sum" ->
           IF truthy(scalar) THEN Number(scalar.num + orzero(val).num)
           ELSE orzero(val)
      [] type = "min" ->
           IF truthy(scalar)
           THEN (IF scalar.num > orzero(val).num THEN orzero(val) ELSE scalar)
           ELSE orzero(val)
      [] type = "max" ->
           IF ~val.def THEN scalar
           ELSE IF truthy(scalar)
                THEN (IF scalar.num < val.num THEN val ELSE scalar)
                ELSE val
      [] type = "group" ->
           LET m == IF truthy(scalar) THEN scalar.map ELSE <<>>
           IN  IF ~val.def THEN Object(m)
               ELSE IF val.num \in DOMAIN m /\ m[val.num] # 0
                    THEN Object([m EXCEPT ![val.num] = @ + 1])
                    ELSE Object([v \in DOMAIN m \cup {val.num} |->
                                   IF v = val.num THEN 1 ELSE m[v]])

\* nosql.js:3193-3194: builder.$inlinesort and builder.$limit, of a job whose
\* sort is "none", "asc" or "desc" (by the field f)
inlinesort(item) == item.take # 0 /\ item.sort # "none"

limit(item) == item.take + item.skip

\* Array.prototype.quicksort(name, asc) is not part of src/: the array in the
\* order of the field, here with equal values in their order of arrival
RECURSIVE quicksort(_, _)
quicksort(arr, asc) ==
    IF arr = <<>> THEN <<>>
    ELSE LET doc == arr[Len(arr)]
             b == doc.f[1]
             front == quicksort(SubSeq(arr, 1, Len(arr) - 1), asc)
             before == SelectSeq(front, LAMBDA d :
                                   IF asc THEN d.f[1] <= b ELSE d.f[1] >= b)
             after == SelectSeq(front, LAMBDA d :
                                  IF asc THEN d.f[1] > b ELSE d.f[1] < b)
         IN  before \o <<doc>> \o after

\* nosql.js:2083-2094, for numbers (2086)
nosqlsortvalue(a, b, asc) == IF asc THEN a > b ELSE a < b

\* nosql.js:2096-2124: the full buffer after the document doc; the indexes
\* tmp, beg and i count from 0 as in the code
nosqlresort(arr, asc, doc) ==
    LET b == doc.f[1]
        length == Len(arr)
        tmp == length \div 2
        beg == IF nosqlsortvalue(arr[tmp + 1].f[1], b, asc) THEN 0 ELSE tmp + 1
        hits == {i \in beg..(length - 1) :
                   nosqlsortvalue(arr[i + 1].f[1], b, asc)}
    IN  IF ~nosqlsortvalue(arr[length].f[1], b, asc) \/ hits = {} THEN arr
        ELSE LET i == CHOOSE h \in hits : \A g \in hits : h <= g
             IN  SubSeq(arr, 1, i) \o <<doc>> \o SubSeq(arr, i + 1, length - 1)

\* nosql.js:2069-2081: item.response after the document doc (the empty
\* sequence is the response not yet made)
nosqlinlinesorter(item, doc) ==
    LET asc == item.sort = "asc"
        length == Len(item.response)
        pushed == Append(item.response, doc)
    IN  IF item.response = <<>> THEN <<doc>>
        ELSE IF length < limit(item)
             THEN (IF length + 1 >= limit(item) THEN quicksort(pushed, asc)
                   ELSE pushed)
             ELSE nosqlresort(item.response, asc, doc)

\* nosql.js:1710-1763: what a matching document adds to the job: a step of
\* its scalar, or the document in its response
reader_collect(item, doc) ==
    IF item.scalar # "none"
    THEN [item EXCEPT !.acc = scalar_switch(item.scalar, item.acc, doc)]
    ELSE IF inlinesort(item)
         THEN [item EXCEPT !.response = nosqlinlinesorter(item, doc)]
         ELSE [item EXCEPT !.response = Append(@, doc)]

\* mutant: a batch of first() queries stops at the first match as well
reader_first_batch(filter) == \A i \in 1..Len(filter) : filter[i].first

\* nosql.js:1667-1680: the pass stops at the first match only for a single
\* first() query without sort
reader_first(filter) ==
    (\A i \in 1..Len(filter) : filter[i].first) /\ ~(Len(filter) > 1)

\* mutant: a document is passed over while its number is below skip
reader_skipped_below(item, count) ==
    /\ ~inlinesort(item)
    /\ (item.skip # 0 /\ item.skip > count)
         \/ (item.take # 0 /\ ~item.nan /\ item.take <= item.counter)

\* nosql.js:1702: the document is counted but not collected
reader_skipped(item, count) ==
    /\ ~inlinesort(item)
    /\ (item.skip # 0 /\ item.skip >= count)
         \/ (item.take # 0 /\ ~item.nan /\ item.take <= item.counter)

\* nosql.js:1692-1767: every reader of the batch is tried on one document;
\* acc: [filter, stop]
RECURSIVE reader_items(_, _, _, _)
reader_items(doc, first, i, acc) ==
    IF i > Len(acc.filter) THEN acc
    ELSE LET item == acc.filter[i]
             counted == [item EXCEPT !.count = @ + 1]
             taken == [counted EXCEPT !.counter = @ + 1]
         IN  IF ~compare(item.filter, doc) THEN reader_items(doc, first, i + 1, acc)
             ELSE IF reader_skipped(item, counted.count)
                  THEN reader_items(doc, first, i + 1,
                                    [acc EXCEPT !.filter[i] = counted])
             ELSE IF item.type # 0
                  THEN reader_items(doc, first, i + 1,
                                    [acc EXCEPT !.filter[i] = taken])
             ELSE IF first
                  THEN [filter |-> [acc.filter EXCEPT ![i] =
                                      reader_collect(taken, doc)],
                        stop |-> TRUE]
             ELSE reader_items(doc, first, i + 1,
                    [acc EXCEPT !.filter[i] =
                       reader_collect(taken, doc)])

\* nosql.js:1684-1769: fs.ondocuments over the documents the stream delivers
RECURSIVE reader_scan(_, _, _, _)
reader_scan(docs, first, j, acc) ==
    IF j > Len(docs) \/ acc.stop THEN acc
    ELSE reader_scan(docs, first, j + 1, reader_items(docs[j], first, 1, acc))

\* Math.ceil(a / b) for a >= 0, b > 0
ceil(a, b) == IF a % b = 0 THEN a \div b ELSE a \div b + 1

\* the output of a query that is no listing
NoListing == [page |-> <<0, 1>>, pages |-> 0, limit |-> 0, count |-> 0,
              items |-> <<>>]

\* nosql.js:1645-1649: the page of a listing; page is the fraction
\* <<numerator, denominator>> of (skip / take) + 1
listing(item) ==
    [page  |-> <<item.skip + item.take, item.take>>,
     pages |-> IF item.count # 0 THEN ceil(item.count, item.take) ELSE 0,
     limit |-> item.take,
     count |-> item.count,
     items |-> item.response]

\* arr.splice(start, n): the removed elements
splice(arr, start, n) ==
    SubSeq(arr, start + 1, IF start + n < Len(arr) THEN start + n ELSE Len(arr))

\* nosql.js:1792-1807: item.response of a builder with a sort field, sorted
\* and cut by fs.$callback
reader_sorted(item) ==
    LET sorted == IF ~inlinesort(item) \/ item.take # Len(item.response)
                  THEN quicksort(item.response, item.sort = "asc")
                  ELSE item.response
    IN  IF item.count = 0 THEN item.response
        ELSE IF item.skip # 0 /\ item.take # 0
             THEN splice(sorted, item.skip, item.take)
        ELSE IF item.skip # 0 THEN splice(sorted, item.skip, Len(sorted))
        ELSE IF ~inlinesort(item) /\ item.take # 0
             THEN splice(sorted, 0, item.take)
        ELSE sorted

\* nosql.js:1778-1818: what fs.$callback hands to builder.$callback2
\* The record holds (err is null) the count handed over as third argument
\* and the response: the number count for a job of type 1, else doc for a
\* first() query (NoDoc: undefined), listing for a listing and docs for a
\* list; for a builder with scalar the response is item.scalar. The response
\* of a builder with sort and without scalar is sorted and cut first.
reader_output(item) ==
    LET plain == item.type # 1 /\ item.scalar = "none"
        response == IF item.scalar = "none" /\ item.sort # "none"
                    THEN reader_sorted(item) ELSE item.response
    IN
    [count  |-> item.count,
     doc    |-> IF plain /\ item.first /\ response # <<>>
                THEN response[1] ELSE NoDoc,
     listing |-> IF plain /\ ~item.first /\ item.listing
                 THEN listing([item EXCEPT !.response = response])
                 ELSE NoListing,
     docs   |-> IF plain /\ ~item.first /\ ~item.listing THEN response
                ELSE <<>>,
     scalar |-> IF item.type # 1 /\ item.scalar # "none" THEN item.acc
                ELSE undefined]

\* DP.$reader2 over the documents of a forward stream
reader2(docs, filter) ==
    LET acc == reader_scan(docs, reader_first(filter), 1,
                           [filter |-> filter, stop |-> FALSE])
    IN  [i \in 1..Len(filter) |-> reader_output(acc.filter[i])]

\* ------------------------------------------------- $reader3: the file pass
\* mutant: a batch of first() queries stops at the first match as well
reader3_first_batch(filter) == \A i \in 1..Len(filter) : filter[i].first

\* nosql.js:1850-1863
reader3_first(filter) ==
    (\A i \in 1..Len(filter) : filter[i].first) /\ ~(Len(filter) > 1)

\* nosql.js:1878-1964; acc: [filter, stop, done]
RECURSIVE reader3_items(_, _, _, _)
reader3_items(doc, first, i, acc) ==
    IF i > Len(acc.filter) THEN acc
    ELSE LET item == acc.filter[i]
             counted == [item EXCEPT !.count = @ + 1]
             taken == [counted EXCEPT
                         !.counter = @ + 1,
                         !.done = item.take # 0 /\ ~item.nan
                                    /\ item.take <= item.counter + 1]
             acc1 == [acc EXCEPT !.done = FALSE]
         IN  IF item.done THEN reader3_items(doc, first, i + 1, acc)
             ELSE IF ~compare(item.filter, doc)
                  THEN reader3_items(doc, first, i + 1, acc1)
             ELSE IF reader_skipped(item, counted.count)
                  THEN reader3_items(doc, first, i + 1,
                                     [acc1 EXCEPT !.filter[i] = counted])
             ELSE IF item.type # 0
                  THEN reader3_items(doc, first, i + 1,
                                     [acc1 EXCEPT !.filter[i] = taken])
             ELSE IF first
                  THEN [acc1 EXCEPT !.filter[i] =
                                      reader_collect(taken, doc),
                                    !.stop = TRUE]
             ELSE reader3_items(doc, first, i + 1,
                    [acc1 EXCEPT !.filter[i] =
                       reader_collect(taken, doc)])

\* nosql.js:1867-1969: the documents arrive last line first
RECURSIVE reader3_scan(_, _, _, _)
reader3_scan(docs, first, j, acc) ==
    IF j < 1 \/ acc.stop THEN acc
    ELSE LET r == reader3_items(docs[j], first, 1, [acc EXCEPT !.done = TRUE])
         IN  reader3_scan(docs, first, j - 1,
                          IF r.done /\ ~r.stop THEN [r EXCEPT !.stop = TRUE] ELSE r)

reader3(docs, filter) ==
    LET acc == reader3_scan(docs, reader3_first(filter), Len(docs),
                            [filter |-> filter, stop |-> FALSE, done |-> FALSE])
    IN  [i \in 1..Len(filter) |-> reader_output(acc.filter[i])]

\* nosql.js:2047-2063: every stream job is handed every document
streamer(docs, filter) ==
    [i \in 1..Len(filter) |->
       [count |-> Len(docs), doc |-> NoDoc, listing |-> NoListing,
        docs |-> docs, scalar |-> undefined]]

\* ------------------------------------------------------------ the scheduler
\* The operators below work on a record s holding the variables, so that a
\* handler can be composed of its assignments and the calls it makes.

\* self.pending_reindex is set at nosql.js:605 and never changed
pending_reindex == FALSE

setImmediate(s, call) == [s EXCEPT !.immediates = Append(@, call)]

Callback(s, id) == [s EXCEPT !.called[id] = @ + 1]

RECURSIVE Callbacks(_, _)
Callbacks(s, filter) ==
    IF filter = <<>> THEN s ELSE Callbacks(Callback(s, Head(filter).id), Tail(filter))

StartIO(s, pass) == [s EXCEPT !.io = Append(@, pass)]

\* history: one more pass of this kind has been started
Started(s, op) == [s EXCEPT !.log.started[op] = @ + 1]

\* mutant: the jobs are written one by one
append_batch_one(items) == 1

\* nosql.js:1322: .limit(JSONBUFFER, ...) takes at most JSONBUFFER jobs
append_batch(items) ==
    IF Len(items) < JSONBUFFER THEN Len(items) ELSE JSONBUFFER

\* nosql.js:1322-1329: the next batch of at most JSONBUFFER jobs is handed
\* to Fs.appendFile; after the last batch next_append is scheduled (1342)
append_limit(s, items) ==
    IF items = <<>> THEN setImmediate(s, [fn |-> "next_append", type |-> 0])
    ELSE LET n == append_batch(items)
             batch == SubSeq(items, 1, n)
         IN  [StartIO(s, [op |-> "append", filter |-> batch,
                          rest |-> SubSeq(items, n + 1, Len(items)), ino |-> 0])
                EXCEPT !.log.appends =
                         Append(@, [i \in 1..n |-> batch[i].doc])]

RECURSIVE DP_next(_, _)

\* nosql.js:1311-1343
DP_append(s) ==
    LET s1 == [s EXCEPT !.step = 1] IN
    IF s1.pending_append = <<>> THEN DP_next(s1, 0)
    ELSE append_limit(
           Started([s1 EXCEPT !.writting = TRUE,
                              !.pending_append = <<>>], "append"),
                      s1.pending_append)

\* nosql.js:1376-1403, 1531
DP_update(s) ==
    LET s1 == [s EXCEPT !.step = 2] IN
    IF s1.pending_update = <<>> THEN DP_next(s1, 0)
    ELSE StartIO(
           Started([s1 EXCEPT !.writting = TRUE,
                              !.pending_update = <<>>], "update"),
                 [op |-> "update", filter |-> s1.pending_update, rest |-> <<>>,
                  ino |-> s1.cur])

\* nosql.js:2274-2299, 2356
DP_remove(s) ==
    LET s1 == [s EXCEPT !.step = 3] IN
    IF s1.pending_remove = <<>> THEN DP_next(s1, 0)
    ELSE StartIO(
           Started([s1 EXCEPT !.writting = TRUE,
                              !.pending_remove = <<>>], "remove"),
                 [op |-> "remove", filter |-> s1.pending_remove, rest |-> <<>>,
                  ino |-> s1.cur])

\* nosql.js:1621-1643
DP_reader(s) ==
    LET s1 == [s EXCEPT !.step = 4] IN
    IF s1.pending_reader = <<>> THEN DP_next(s1, 0)
    ELSE StartIO(
           Started([s1 EXCEPT !.reading = TRUE,
                              !.pending_reader = <<>>], "reader"),
                 [op |-> "reader", filter |-> s1.pending_reader, rest |-> <<>>,
                  ino |-> s1.cur])

\* nosql.js:1835-1848, 2026
DP_reader3(s) ==
    LET s1 == [s EXCEPT !.step = 11] IN
    IF s1.pending_reader2 = <<>> THEN DP_next(s1, 0)
    ELSE StartIO(
           Started([s1 EXCEPT !.reading = TRUE,
                              !.pending_reader2 = <<>>], "reader3"),
                 [op |-> "reader3", filter |-> s1.pending_reader2, rest |-> <<>>,
                  ino |-> s1.cur])

\* nosql.js:2030-2045, 2065
DP_streamer(s) ==
    LET s1 == [s EXCEPT !.step = 10] IN
    IF s1.pending_streamer = <<>> THEN DP_next(s1, 0)
    ELSE StartIO(
           Started([s1 EXCEPT !.reading = TRUE,
                              !.pending_streamer = <<>>], "streamer"),
                 [op |-> "streamer", filter |-> s1.pending_streamer, rest |-> <<>>,
                  ino |-> s1.cur])

\* nosql.js:2359-2370
DP_clear(s) ==
    LET s1 == [s EXCEPT !.step = 12] IN
    IF s1.pending_clear = <<>> THEN DP_next(s1, 0)
    ELSE StartIO(Started([s1 EXCEPT !.pending_clear = <<>>], "clear"),
                 [op |-> "clear", filter |-> s1.pending_clear, rest |-> <<>>,
                  ino |-> 0])

\* nosql.js:2378-2398, 2419: the stream over the file is opened; rest will
\* hold what the writer puts into the temp file
DP_clean(s) ==
    LET s1 == [s EXCEPT !.step = 13] IN
    IF s1.pending_clean = <<>> THEN DP_next(s1, 0)
    ELSE StartIO(Started([s1 EXCEPT !.pending_clean = <<>>], "clean"),
                 [op |-> "clean", filter |-> s1.pending_clean, rest |-> <<>>,
                  ino |-> s1.cur])

\* nosql.js:2422-2438: the first lock function is called; rest holds the
\* functions still to call (history: log.lockat keeps the number of user
\* calls made before the batch started)
DP_lock(s) ==
    LET s1 == [s EXCEPT !.step = 14] IN
    IF s1.pending_locks = <<>> THEN DP_next(s1, 0)
    ELSE StartIO(Callback(Started([s1 EXCEPT !.pending_locks = <<>>,
                                             !.log.lockat = s1.nops], "lock"),
                          Head(s1.pending_locks).id),
                 [op |-> "lock", filter |-> s1.pending_locks,
                  rest |-> Tail(s1.pending_locks), ino |-> 0])

\* nosql.js:2526-2546
DP_drop(s) ==
    LET s1 == [s EXCEPT !.step = 7] IN
    IF ~s1.pending_drops THEN DP_next(s1, 0)
    ELSE StartIO(Started([s1 EXCEPT !.pending_drops = FALSE], "drop"),
                 [op |-> "drop", filter |-> <<>>, rest |-> <<>>, ino |-> 0])

\* nosql.js:1154: a call with a type is ignored while a waiting job runs
next_blocked(s, type) == type # 0 /\ s.step \in NEXTWAIT

\* mutant: the waiting jobs are held back by a writing pass only
next_idle_noreading(s) == ~s.writting

\* nosql.js:1157: the guard of the waiting jobs (clear, clean, drop, lock)
next_idle(s) == ~s.writting /\ ~s.reading

\* mutant: a writing pass is started whatever $writting says
next_canwrite_always(s) == TRUE

\* nosql.js:1183: the guard of the writing passes
next_canwrite(s) == ~s.writting

\* nosql.js:1211: the guard of the reading passes
next_canread(s) == ~s.reading

\* mutant: a call that starts nothing schedules no further call
next_again_never(s, type) == FALSE

\* mutant: a call that starts nothing always schedules a further call
next_again_always(s, type) == TRUE

\* nosql.js:1228: a call that starts nothing, made with another type than
\* the current step, resets the step and schedules a call without a type
next_again(s, type) == s.step # type

\* mutant: a pending update is started before a pending append
DP_next_update_first(s, type) ==
    IF next_blocked(s, type) THEN s
    ELSE IF next_idle(s) /\ s.step # 12 /\ s.pending_clear # <<>>
         THEN DP_clear(s)
    ELSE IF next_idle(s) /\ s.step # 13 /\ s.pending_clean # <<>>
         THEN DP_clean(s)
    ELSE IF next_idle(s) /\ s.step # 7 /\ ~pending_reindex
              /\ s.pending_drops
         THEN DP_drop(s)
    ELSE IF next_idle(s) /\ s.step # 14 /\ s.pending_locks # <<>>
         THEN DP_lock(s)
    ELSE IF next_canwrite(s) /\ s.step # 2 /\ s.pending_update # <<>>
         THEN DP_update(s)
    ELSE IF next_canwrite(s) /\ s.step # 1 /\ ~pending_reindex
              /\ s.pending_append # <<>>
         THEN DP_append(s)
    ELSE IF next_canwrite(s) /\ s.step # 3 /\ s.pending_remove # <<>>
         THEN DP_remove(s)
    ELSE IF next_canread(s) /\ s.step # 4 /\ s.pending_reader # <<>>
         THEN DP_reader(s)
    ELSE IF next_canread(s) /\ s.step # 11 /\ s.pending_reader2 # <<>>
         THEN DP_reader3(s)
    ELSE IF next_canread(s) /\ s.step # 10 /\ s.pending_streamer # <<>>
         THEN DP_streamer(s)
    ELSE IF next_again(s, type)
         THEN setImmediate([s EXCEPT !.step = 0],
                           [fn |-> "next_operation", type |-> 0])
    ELSE s

\* nosql.js:1152-1233
DP_next(s, type) ==
    IF next_blocked(s, type) THEN s
    ELSE IF next_idle(s) /\ s.step # 12 /\ s.pending_clear # <<>>
         THEN DP_clear(s)
    ELSE IF next_idle(s) /\ s.step # 13 /\ s.pending_clean # <<>>
         THEN DP_clean(s)
    ELSE IF next_idle(s) /\ s.step # 7 /\ ~pending_reindex
              /\ s.pending_drops
         THEN DP_drop(s)
    ELSE IF next_idle(s) /\ s.step # 14 /\ s.pending_locks # <<>>
         THEN DP_lock(s)
    ELSE IF next_canwrite(s) /\ s.step # 1 /\ ~pending_reindex
              /\ s.pending_append # <<>>
         THEN DP_append(s)
    ELSE IF next_canwrite(s) /\ s.step # 2 /\ s.pending_update # <<>>
         THEN DP_update(s)
    ELSE IF next_canwrite(s) /\ s.step # 3 /\ s.pending_remove # <<>>
         THEN DP_remove(s)
    ELSE IF next_canread(s) /\ s.step # 4 /\ s.pending_reader # <<>>
         THEN DP_reader(s)
    ELSE IF next_canread(s) /\ s.step # 11 /\ s.pending_reader2 # <<>>
         THEN DP_reader3(s)
    ELSE IF next_canread(s) /\ s.step # 10 /\ s.pending_streamer # <<>>
         THEN DP_streamer(s)
    ELSE IF next_again(s, type)
         THEN setImmediate([s EXCEPT !.step = 0],
                           [fn |-> "next_operation", type |-> 0])
    ELSE s

\* nosql.js:1345-1349
next_append(s) == DP_next([s EXCEPT !.writting = FALSE], 0)

\* ------------------------------------------------------ completion handlers
DropIO(s, i) ==
    [s EXCEPT !.io = SubSeq(@, 1, i - 1) \o SubSeq(@, i + 1, Len(@))]

\* the file at self.filename gets lines appended (it is created when missing)
AppendLines(s, lines) ==
    IF s.cur = 0
    THEN [s EXCEPT !.inodes = Append(@, lines), !.cur = Len(s.inodes) + 1]
    ELSE [s EXCEPT !.inodes[s.cur] = @ \o lines]

\* a stream session writes to the file it has opened
WriteInode(s, ino, lines) ==
    IF ino = 0 THEN s ELSE [s EXCEPT !.inodes[ino] = lines]

\* nothing delivered yet
NoResult == [count |-> 0, doc |-> NoDoc, listing |-> NoListing, docs |-> <<>>,
             scalar |-> undefined]

\* nosql.js:1788, 783-786: builder.$callback2 of every job of the pass; the
\* callback of an upsert calls the user's callback with 0 when a document
\* was found, and inserts its document (797-800) when none was
RECURSIVE Deliver(_, _, _, _)
Deliver(s, filter, outs, k) ==
    IF k > Len(filter) THEN s
    ELSE LET item == filter[k]
             upsert == IF "upsert" \in DOMAIN item THEN item.upsert ELSE NoDoc
         IN  IF upsert = NoDoc
             THEN Deliver(Callback([s EXCEPT !.result[item.id] = outs[k]],
                                   item.id),
                          filter, outs, k + 1)
             ELSE IF outs[k].doc # NoDoc
             THEN Deliver(Callback([s EXCEPT !.result[item.id] = NoResult],
                                   item.id),
                          filter, outs, k + 1)
             ELSE Deliver(
                    setImmediate(
                      [s EXCEPT !.pending_append =
                                   Append(@, [id |-> item.id, doc |-> upsert]),
                                !.log.inserted = Append(@, upsert)],
                      [fn |-> "next_operation", type |-> 1]),
                    filter, outs, k + 1)

\* nosql.js:1329-1340: the callback of Fs.appendFile
append_callback(s, i) ==
    LET pass == s.io[i]
        lines == [k \in 1..Len(pass.filter) |-> Line(pass.filter[k].doc)]
    IN  append_limit(Callbacks(AppendLines(DropIO(s, i), lines), pass.filter),
                     pass.rest)

\* mutant: the fallback document is inserted whatever the job has matched
update_fallback_always(item) == item.insert # NoDoc

\* nosql.js:1514: item.insert && !item.count
update_fallback(item) == item.insert # NoDoc /\ item.count = 0

\* nosql.js:1512-1524: a job that matched nothing has its fallback document
\* inserted (DP.insert, 797-800), and the builder of the insert gets the
\* job's callback; every other job's callback is called with its count
RECURSIVE update_done(_, _, _)
update_done(s, filter, k) ==
    IF k > Len(filter) THEN s
    ELSE LET item == filter[k] IN
         IF update_fallback(item)
         THEN update_done(
                setImmediate(
                  [s EXCEPT !.pending_append =
                               Append(@, [id |-> item.id, doc |-> item.insert]),
                            !.log.inserted = Append(@, item.insert)],
                  [fn |-> "next_operation", type |-> 1]),
                filter, k + 1)
         ELSE update_done(
                Callback([s EXCEPT !.result[item.id].count = item.count],
                         item.id),
                filter, k + 1)

\* nosql.js:1511-1529: fs.$callback of the update pass
update_callback(s, i) ==
    LET pass == s.io[i]
        r == update_pass(Content(s, pass.ino), pass.filter)
        s1 == update_done(WriteInode(DropIO(s, i), pass.ino, r.lines),
                          r.filter, 1)
    IN  DP_next([s1 EXCEPT !.writting = FALSE,
                           !.log.threw = @ \cup ({r.thrown} \ {0})], 0)

\* nosql.js:1405-1426: a filter function throws inside fs.ondocuments, which
\* has no handler for it: the exception leaves the stream's session, and
\* fs.$callback (1511) is not run
update_thrown(s, i) ==
    LET pass == s.io[i]
        r == update_pass(Content(s, pass.ino), pass.filter)
    IN  [WriteInode(DropIO(s, i), pass.ino, r.lines)
           EXCEPT !.log.threw = @ \cup {r.thrown}]

\* nosql.js:2343-2354: fs.$callback of the remove pass
remove_callback(s, i) ==
    LET pass == s.io[i]
        lines == Content(s, pass.ino)
        r == remove_pass(lines, pass.filter)
        removed == {lines[k].doc.id : k \in {k \in 1..Len(lines) :
                                             ~lines[k].del /\ r.lines[k].del}}
        outs == [k \in 1..Len(r.filter) |->
                   [NoResult EXCEPT !.count = r.filter[k].count]]
        s1 == Deliver(WriteInode(DropIO(s, i), pass.ino, r.lines), pass.filter,
                      outs, 1)
    IN  DP_next([s1 EXCEPT !.writting = FALSE,
                           !.log.gone = @ \cup removed], 0)

\* nosql.js:1771-1825 and 1636-1639: fs.$callback of the reader pass
reader_callback(s, i) ==
    LET pass == s.io[i]
        outs == reader2(LiveDocs(Content(s, pass.ino)), pass.filter)
        s1 == Deliver(DropIO(s, i), pass.filter, outs, 1)
    IN  DP_next([s1 EXCEPT !.reading = FALSE], 0)

\* nosql.js:1971-2024
reader3_callback(s, i) ==
    LET pass == s.io[i]
        outs == reader3(LiveDocs(Content(s, pass.ino)), pass.filter)
        s1 == Deliver(DropIO(s, i), pass.filter, outs, 1)
    IN  DP_next([s1 EXCEPT !.reading = FALSE], 0)

\* nosql.js:2057-2063
streamer_callback(s, i) ==
    LET pass == s.io[i]
        outs == streamer(LiveDocs(Content(s, pass.ino)), pass.filter)
        s1 == Deliver(DropIO(s, i), pass.filter, outs, 1)
    IN  DP_next([s1 EXCEPT !.reading = FALSE], 0)

\* nosql.js:2370-2375: the callback of Fs.unlink
clear_callback(s, i) ==
    LET pass == s.io[i]
    IN  DP_next(Callbacks([DropIO(s, i) EXCEPT !.cur = 0], pass.filter), 0)

\* nosql.js:2400-2406: the stream has copied every live line to the writer
\* of the temp file, and the writer is ended
clean_read(s, i) ==
    LET pass == s.io[i]
        live == SelectSeq(Content(s, pass.ino), LAMBDA l : ~l.del)
    IN  [s EXCEPT !.io[i] = [pass EXCEPT !.op = "rename", !.rest = live]]

\* nosql.js:2408-2416: the temp file is renamed over the data file
clean_callback(s, i) ==
    LET pass == s.io[i]
        s1 == [DropIO(s, i) EXCEPT !.inodes = Append(@, pass.rest),
                                   !.cur = Len(s.inodes) + 1]
    IN  DP_next(Callbacks(s1, pass.filter), 0)

\* nosql.js:2433-2437: the running lock function signals its completion; the
\* next one is called, after the last one the scheduler goes on
lock_next(s, i) ==
    LET pass == s.io[i]
    IN  IF pass.rest = <<>> THEN DP_next(DropIO(s, i), 0)
        ELSE Callback([s EXCEPT !.io[i].rest = Tail(@)], Head(pass.rest).id)

\* nosql.js:2535, 2544-2548: the files at self.filename and at
\* self.filenameTemp are unlinked (log.dropat: the number of calls made by
\* then)
drop_callback(s, i) ==
    DP_next([DropIO(s, i) EXCEPT !.cur = 0, !.log.dropat = s.nops], 0)

\* --------------------------------------------------------------- the table
\* A Table has the fields of a Database that the scheduler works on, and
\* TP.next (nosql.js:5743-5811, with ready = true), TP.insert (5528-5532),
\* TP.clear (1013), TP.$append (5813-5842) and the start of TP.$clear
\* (6587-6597) have the bodies of DP.next, DP.insert, DP.clear, DP.$append and
\* DP.$clear.  The completion of TP.$clear is its own.

\* nosql.js:6708-6738: TP.stringifySchema() + NEWLINE, the first line of the
\* table file (the rows have positive ids)
stringifySchema == Line([id |-> 0 - 2, v |-> <<>>])

\* nosql.js:6597-6601: the callback of Fs.unlink calls the callbacks of the
\* clear jobs and has the header appended to the file, which is made anew
TP_clear_callback(s, i) ==
    LET pass == s.io[i]
    IN  StartIO(Callbacks([DropIO(s, i) EXCEPT !.cur = 0], pass.filter),
                [op |-> "header", filter |-> <<>>, rest |-> <<>>, ino |-> 0])

\* nosql.js:6601-6604: the callback of Fs.appendFile
TP_clear_header(s, i) ==
    DP_next(AppendLines(DropIO(s, i), <<stringifySchema>>), 0)

\* ------------------------------------------------------------- the counter
\* A key of the cache and of a line of the counter file is <<type, id>>: the
\* text type + year + id, of one year.  A value is a number, Number(n), or
\* the array [min, max], Object(<<min, max>>), written as minXmax.
CounterIds == {"p", "q"}

\* <<"", id>> is the id alone, the key that CP.remove sets
CounterKeys == {"sum", "mma", ""} \X CounterIds

\* self.cache: undefined or null (null = TRUE), or an object whose keys are
\* kept in the order of their creation
NoCache == [null |-> TRUE, keys |-> <<>>, val |-> [k \in CounterKeys |-> undefined]]

\* self.cache[key] = value
cache_set(cache, key, value) ==
    [null |-> FALSE,
     keys |-> IF key \in Range(cache.keys) THEN cache.keys
              ELSE Append(cache.keys, key),
     val  |-> [cache.val EXCEPT ![key] = value]]

\* nosql.js:3400-3412
CP_empty(cache, key, value) ==
    cache_set(cache, key, IF key[1] = "sum" THEN Number(value)
                          ELSE Object(<<value, value>>))

\* nosql.js:3414-3439 (CP.max, 3441-3465, has the same body)
CP_min(cache, id, count) ==
    LET key == <<"mma", id>> IN
    IF cache.null \/ ~truthy(cache.val[key]) THEN CP_empty(cache, key, count)
    ELSE LET arr == cache.val[key].map
         IN  cache_set(cache, key,
                       Object(<<IF arr[1] > count THEN count ELSE arr[1],
                                IF arr[2] < count THEN count ELSE arr[2]>>))

\* nosql.js:3467-3487: count || 1
CP_hit(cache, id, count) ==
    LET key == <<"sum", id>>
        n   == IF count # 0 THEN count ELSE 1
    IN  IF cache.null \/ ~truthy(cache.val[key]) THEN CP_empty(cache, key, n)
        ELSE cache_set(cache, key, Number(cache.val[key].num + n))

\* nosql.js:3489-3502: self.cache[id] = null, in a new cache when there is
\* none
CP_remove(cache, id) == cache_set(cache, <<"", id>>, null)

\* nosql.js:4309-4332, 4343-4357: the stored value merged with the cached one
save_merge(type, stored, count) ==
    IF type = "mma"
    THEN Object(<<IF stored.map[1] > count.map[1] THEN count.map[1]
                  ELSE stored.map[1],
                  IF stored.map[2] < count.map[2] THEN count.map[2]
                  ELSE stored.map[2]>>)
    ELSE Number(stored.num + count.num)

\* mutant: the head of the line is left as it is
save_line_head(line, cache, dt) ==
    LET count == cache.val[line.key] IN
    IF count = null THEN [out |-> <<>>, cache |-> cache]
    ELSE IF ~count.def THEN [out |-> <<line>>, cache |-> cache]
    ELSE LET today == {i \in 1..Len(line.days) : line.days[i].dt = dt}
             first == CHOOSE i \in today : \A j \in today : i <= j
         IN  [out |-> <<[line EXCEPT
                 !.days = IF today = {}
                          THEN Append(line.days, [dt |-> dt, val |-> count])
                          ELSE [line.days EXCEPT ![first].val =
                                  save_merge(line.key[1], @, count)]]>>,
              cache |-> [cache EXCEPT !.val[line.key] = undefined]]

\* nosql.js:4293-4370: a line of the file goes to the new file, merged with
\* the cached value of its key in the head and in the bucket of the day dt
\* (the first one; a new last bucket if there is none)
save_line(line, cache, dt) ==
    LET count == cache.val[line.key] IN
    IF count = null THEN [out |-> <<>>, cache |-> cache]
    ELSE IF ~count.def THEN [out |-> <<line>>, cache |-> cache]
    ELSE LET today == {i \in 1..Len(line.days) : line.days[i].dt = dt}
             first == CHOOSE i \in today : \A j \in today : i <= j
         IN  [out |-> <<[line EXCEPT
                 !.head = save_merge(line.key[1], @, count),
                 !.days = IF today = {}
                          THEN Append(line.days, [dt |-> dt, val |-> count])
                          ELSE [line.days EXCEPT ![first].val =
                                  save_merge(line.key[1], @, count)]]>>,
              cache |-> [cache EXCEPT !.val[line.key] = undefined]]

\* nosql.js:4280-4291: the keys that are left get a line each
save_flush(cache, dt) ==
    LET keys == SelectSeq(cache.keys, LAMBDA k : cache.val[k].def)
    IN  [i \in 1..Len(keys) |->
           [key |-> keys[i], head |-> cache.val[keys[i]],
            days |-> <<[dt |-> dt, val |-> cache.val[keys[i]]]>>]]

\* nosql.js:4293-4373: the lines of the new file
RECURSIVE save_lines(_, _, _)
save_lines(lines, cache, dt) ==
    IF lines = <<>> THEN save_flush(cache, dt)
    ELSE LET r == save_line(Head(lines), cache, dt)
         IN  r.out \o save_lines(Tail(lines), r.cache, dt)

\* the arguments of stats: top and type; NoArgs for the other calls
NoArgs == [top |-> 0, type |-> ""]

\* nosql.js:4020-4030: the minimum or the maximum of minXmax
counter_minmax(type2, val) == IF type2 = "min" THEN val.map[1] ELSE val.map[2]

\* nosql.js:3966-4018, called with the string type as opt (3941): opt.type2
\* and opt.type are undefined, so the group is not sorted when it reaches
\* top entries (3982-3991), and the test of 'min' (4005) never holds.
\* An entry that is not greater than count takes the new id and count, the
\* entries after it move down by one, the last one is lost.
counter_parse_stats_avg(group, top, key, count) ==
    LET same    == {i \in 1..Len(group) : group[i].id = key}
        notover == {i \in 1..Len(group) : ~(group[i].count > count)}
        first(S) == CHOOSE i \in S : \A j \in S : i <= j
    IN  IF same # {}
        THEN [group EXCEPT ![first(same)].count = @ + count]
        ELSE IF Len(group) < top
             THEN Append(group, [id |-> key, count |-> count])
             ELSE IF notover = {} THEN group
                  ELSE SubSeq(group, 1, first(notover) - 1)
                         \o <<[id |-> key, count |-> count]>>
                         \o SubSeq(group, first(notover), Len(group) - 1)

\* nosql.js:3922-3942: a line of the file, without year, month and day
stats_line(output, top, type, line) ==
    IF line.key[1] # (IF type # "sum" THEN "mma" ELSE type) THEN output
    ELSE counter_parse_stats_avg(output, top, line.key[2],
           IF type # "sum" THEN counter_minmax(type, line.head)
           ELSE line.head.num)

RECURSIVE stats_lines(_, _, _, _)
stats_lines(output, top, type, lines) ==
    IF lines = <<>> THEN output
    ELSE stats_lines(stats_line(output, top, type, Head(lines)), top, type,
                     Tail(lines))

\* nosql.js:3950, 3958-3960: output.sort(counter_sort_sum), the greatest
\* count first, equal counts in the order they have
RECURSIVE counter_sort_sum(_)
counter_sort_sum(group) ==
    IF group = <<>> THEN <<>>
    ELSE LET rest == counter_sort_sum(Tail(group))
             k    == Cardinality({i \in 1..Len(rest) :
                                    rest[i].count > Head(group).count})
         IN  SubSeq(rest, 1, k) \o <<Head(group)>>
               \o SubSeq(rest, k + 1, Len(rest))

\* nosql.js:3328-3336: Counter(db); NOW is day 1; the counter file is absent.
\* timeout: the timer of setTimeout2 is set; retries: the calls that wait
\* 200 ms, with their arguments; output: what the last stats delivered;
\* running: the operations whose streams or file calls are under way;
\* asked: for every id, the counts of the hit calls since the cache was last
\* taken by a save (history); hits: the sum of the counts of all hit calls
\* of an id, and zero: a hit was called with the count 0 (history); calls:
\* the number of user calls made.
Counter ==
    [cache |-> NoCache, type |-> 0, file |-> <<>>, day |-> 1,
     timeout |-> FALSE, retries |-> <<>>, running |-> <<>>,
     asked |-> [id \in CounterIds |-> <<>>], calls |-> 0, output |-> <<>>,
     hits |-> [id \in CounterIds |-> 0], zero |-> FALSE]

\* mutant: save starts whatever the flag is
CP_save_anyway(c) ==
    [c EXCEPT !.cache = NoCache, !.type = 1,
              !.asked = [id \in CounterIds |-> <<>>],
              !.running = Append(@, [op |-> "save", cache |-> c.cache,
                                     dt |-> c.day, asked |-> c.asked,
                                     args |-> NoArgs])]

\* nosql.js:4260-4278: save waits 200 ms while the flag is set; it takes the
\* cache, sets the flag to 1 and opens the file and the -tmp file
CP_save(c) ==
    IF c.type # 0
    THEN [c EXCEPT !.retries = Append(@, [op |-> "save", args |-> NoArgs])]
    ELSE [c EXCEPT !.cache = NoCache, !.type = 1,
                   !.asked = [id \in CounterIds |-> <<>>],
                   !.running = Append(@, [op |-> "save", cache |-> c.cache,
                                          dt |-> c.day, asked |-> c.asked,
                                          args |-> NoArgs])]

\* nosql.js:3680-3699 (read), 3860-3883 (stats), 4386-4402 (clear): the call
\* waits 200 ms while the flag is set; it sets the flag and opens the file
CP_start(c, op, args) ==
    IF c.type # 0
    THEN [c EXCEPT !.retries = Append(@, [op |-> op, args |-> args])]
    ELSE [c EXCEPT !.type = IF op = "read" THEN 2 ELSE 3,
                   !.running = Append(@, [op |-> op, cache |-> NoCache,
                                          dt |-> c.day,
                                          asked |-> Counter.asked,
                                          args |-> args])]

\* save() and the calls save, read, stats and clear make of themselves
CP_call(c, call) ==
    IF call.op = "save" THEN CP_save(c) ELSE CP_start(c, call.op, call.args)

\* the running operation i is over
counter_done(c, i) ==
    [c EXCEPT !.running = SubSeq(@, 1, i - 1) \o SubSeq(@, i + 1, Len(@))]

\* nosql.js:4372-4381: the -tmp file is renamed to the counter file.  With a
\* cache that is null or undefined, cache[id] (4296) and Object.keys(cache)
\* (4281) throw: the file is left as it is and the flag stays 1.
CP_save_callback(c, i) ==
    LET job == c.running[i] IN
    IF job.cache.null THEN counter_done(c, i)
    ELSE [counter_done(c, i) EXCEPT
            !.file = save_lines(c.file, job.cache, job.dt), !.type = 0]

\* nosql.js:3719-3723, 3829: reader error, reader end of read
CP_read_callback(c, i) == [counter_done(c, i) EXCEPT !.type = 0]

\* nosql.js:3901-3904, 3948-3953: reader error, reader end of stats
CP_stats_callback(c, i) ==
    LET args == c.running[i].args
    IN  [counter_done(c, i) EXCEPT
           !.type = 0,
           !.output = counter_sort_sum(stats_lines(<<>>, args.top, args.type,
                                                   c.file))]

\* nosql.js:4396-4400: the counter file is unlinked
CP_clear_callback(c, i) == [counter_done(c, i) EXCEPT !.file = <<>>, !.type = 0]

\* ------------------------------------------------------------------ actions
Cur ==
    [step |-> step, writting |-> writting, reading |-> reading,
     pending_append |-> pending_append, pending_update |-> pending_update,
     pending_remove |-> pending_remove, pending_reader |-> pending_reader,
     pending_reader2 |-> pending_reader2, pending_streamer |-> pending_streamer,
     pending_clean |-> pending_clean, pending_clear |-> pending_clear,
     pending_locks |-> pending_locks, pending_drops |-> pending_drops,
     immediates |-> immediates, io |-> io, inodes |-> inodes, cur |-> cur,
     nops |-> nops, called |-> called, result |-> result, log |-> log]

Install(s) ==
    \E t \in {s} :
        /\ step' = t.step
        /\ writting' = t.writting
        /\ reading' = t.reading
        /\ pending_append' = t.pending_append
        /\ pending_update' = t.pending_update
        /\ pending_remove' = t.pending_remove
        /\ pending_reader' = t.pending_reader
        /\ pending_reader2' = t.pending_reader2
        /\ pending_streamer' = t.pending_streamer
        /\ pending_clean' = t.pending_clean
        /\ pending_clear' = t.pending_clear
        /\ pending_locks' = t.pending_locks
        /\ pending_drops' = t.pending_drops
        /\ immediates' = t.immediates
        /\ io' = t.io
        /\ inodes' = t.inodes
        /\ cur' = t.cur
        /\ nops' = t.nops
        /\ called' = t.called
        /\ result' = t.result
        /\ log' = t.log
        /\ UNCHANGED <<readonly, workload, docsbuffer, counter>>

Kinds == {"insert", "update", "remove", "find", "find2", "stream", "clear",
          "clean", "lock", "drop"}

PassOps == {"append", "update", "remove", "reader", "reader3", "streamer",
            "clear", "clean", "lock", "drop"}

InitFiles ==
    {<<>>} \cup {<<[n \in 1..k |-> Line([id |-> n, v |-> <<"a">>])]>> :
                   k \in 1..MaxInitDocs}

\* the largest number of calls of a workload, and so of job ids
MaxJobs == MaxOps + 2

\* The user calls of a behaviour: at most budget calls, of the kinds in menu.
Workloads ==
    {[budget |-> MaxOps, menu |-> Kinds],
     [budget |-> MaxOps + 2, menu |-> {"insert", "clean"}],
     [budget |-> MaxOps + 2, menu |-> {"insert", "find"}],
     [budget |-> MaxOps + 1, menu |-> {"insert", "update", "remove", "find"}]}

\* removes and reads around a clean
CleanWorkload == [budget |-> MaxOps + 2, menu |-> {"find", "clean", "remove"}]

\* nosql.js:574-575: self.readonly is set for a filename that is a URL
Database(filename) == filename = "http"

\* the arguments of the constructor: a path, no readonly argument
Paths == {[filename |-> "path", readonly |-> FALSE]}

\* The database after construction on one of the files, and after the calls
\* that put the jobs of updates and of readers in their queues (each call
\* schedules a call of DP.next), before the event loop's first tick.
InitDatabase(files, updates, readers, readers2, counters, args) ==
    /\ step = 0
    /\ writting = FALSE
    /\ reading = FALSE
    /\ pending_append = <<>>
    /\ pending_update \in updates
    /\ pending_remove = <<>>
    /\ pending_reader \in readers
    /\ pending_reader2 \in readers2
    /\ pending_streamer = <<>>
    /\ pending_clean = <<>>
    /\ pending_clear = <<>>
    /\ pending_locks = <<>>
    /\ pending_drops = FALSE
    /\ immediates =
         [j \in 1..Len(pending_update) |-> [fn |-> "next_operation", type |-> 2]]
           \o [j \in 1..Len(pending_reader) |->
                 [fn |-> "next_operation", type |-> 4]]
           \o [j \in 1..Len(pending_reader2) |->
                 [fn |-> "next_operation", type |-> 11]]
    /\ io = <<>>
    /\ inodes \in files
    /\ cur = Len(inodes)
    /\ nops = Len(pending_update) + Len(pending_reader) + Len(pending_reader2)
    /\ called = [j \in 1..MaxJobs |-> 0]
    /\ result = [j \in 1..MaxJobs |-> NoResult]
    /\ docsbuffer = NoRec
    /\ counter \in {[Counter EXCEPT !.file = f] : f \in counters}
    /\ \E a \in args :
         /\ readonly = Database(a.filename)
         /\ log = [appends |-> <<>>, inserted |-> <<>>, gone |-> {},
                   goneat |-> [j \in 1..MaxJobs |-> {}],
                   kind |-> [j \in 1..Len(pending_update) |-> "update"]
                              \o [j \in 1..Len(pending_reader) |-> "find"]
                              \o [j \in 1..Len(pending_reader2) |-> "find2"],
                   burst |-> nops = 0, ticked |-> FALSE,
                   joined |-> FALSE, lockat |-> 0, dropat |-> 0 - 1,
                   thrown |-> {}, threw |-> {},
                   flag |-> a.readonly,
                   first |-> {job.id : job \in
                                {job \in Range(pending_reader \o pending_reader2) :
                                   job.first}},
                   where |-> [j \in 1..MaxJobs |->
                                IF \E job \in Range(pending_reader \o pending_reader2) :
                                     job.id = j
                                THEN (CHOOSE job \in
                                        Range(pending_reader \o pending_reader2) :
                                          job.id = j).filter
                                ELSE 0],
                   initial |-> IF inodes = <<>> THEN <<>> ELSE LiveDocs(inodes[1]),
                   started |-> [op \in PassOps |-> 0]]

Init == InitDatabase(InitFiles, {<<>>}, {<<>>}, {<<>>}, {<<>>}, Paths) /\ workload \in Workloads

InitClean == InitDatabase(InitFiles, {<<>>}, {<<>>}, {<<>>}, {<<>>}, Paths) /\ workload = CleanWorkload

\* the pass that takes the jobs of a kind of call
PassOf(kind) ==
    CASE kind = "insert" -> "append"
      [] kind = "find" -> "reader"
      [] kind = "upsert" -> "reader"
      [] kind = "find2" -> "reader3"
      [] kind = "stream" -> "streamer"
      [] OTHER -> kind

\* a user call of kind k: the job gets the next id, the call of DP.next is
\* scheduled (setImmediate(next_operation, self, type))
Submit(s, kind, type) ==
    setImmediate(
      [s EXCEPT !.nops = @ + 1,
                !.log.joined = @ \/ \E i \in 1..Len(s.io) :
                                       s.io[i].op = PassOf(kind),
                !.log.kind = Append(@, kind),
                !.log.goneat[s.nops + 1] = s.log.gone,
                !.log.burst = @ /\ kind = "insert" /\ ~s.log.ticked],
      [fn |-> "next_operation", type |-> type])

\* nosql.js:1101-1103: the call ends with an exception (history: log.thrown
\* keeps the calls that threw)
throwReadonly(s, kind) ==
    [s EXCEPT !.nops = @ + 1,
              !.log.kind = Append(@, kind),
              !.log.thrown = @ \cup {s.nops + 1}]

\* the workload allows one more call of this kind
CanSubmit(kind) == nops < workload.budget /\ kind \in workload.menu

ReaderJob(id, filter, first, nan) ==
    [id |-> id, filter |-> filter, first |-> first,
     take |-> IF first THEN 1 ELSE 0, skip |-> 0, type |-> 0, nan |-> nan,
     count |-> 0, counter |-> 0, response |-> <<>>, done |-> FALSE,
     scalar |-> "none", acc |-> undefined, listing |-> FALSE,
     sort |-> "none", upsert |-> NoDoc]

\* nosql.js:771-803
DP_insert ==
    /\ CanSubmit("insert")
    /\ LET doc == [id |-> MaxInitDocs + nops + 1, v |-> <<"a">>]
       IN  Install(IF readonly THEN throwReadonly(Cur, "insert")
                   ELSE Submit([Cur EXCEPT
                          !.pending_append =
                             Append(@, [id |-> nops + 1, doc |-> doc]),
                          !.log.inserted = Append(@, doc)], "insert", 1))

\* nosql.js:819-849: modify({v: val}) without a condition
DP_modify ==
    /\ CanSubmit("update")
    /\ LET val == <<"a", "a">>
       IN  Install(IF readonly THEN throwReadonly(Cur, "update")
                   ELSE Submit([Cur EXCEPT
                          !.pending_update =
                             Append(@, [id |-> nops + 1, filter |-> 0,
                                        first |-> FALSE, val |-> val,
                                        count |-> 0, skip |-> FALSE,
                                        throws |-> 0, insert |-> NoDoc])],
                          "update", 2))

\* nosql.js:1037-1049
DP_remove_ ==
    /\ CanSubmit("remove")
    /\ Install(IF readonly THEN throwReadonly(Cur, "remove")
               ELSE Submit([Cur EXCEPT
                      !.pending_remove =
                         Append(@, [id |-> nops + 1, filter |-> 0,
                                    backup |-> FALSE, count |-> 0])],
                      "remove", 3))

\* nosql.js:1037-1049, 2873-2879: remove().where('id', k), with backup() or
\* without
DP_remove_where ==
    /\ CanSubmit("remove")
    /\ \E k \in 0..MaxLines, backup \in BOOLEAN :
         Install(IF readonly THEN throwReadonly(Cur, "remove")
                 ELSE Submit([Cur EXCEPT
                        !.pending_remove =
                           Append(@, [id |-> nops + 1, filter |-> k,
                                      backup |-> backup, count |-> 0])],
                        "remove", 3))

\* nosql.js:1064-1073
DP_find ==
    /\ CanSubmit("find")
    /\ Install(Submit([Cur EXCEPT
           !.pending_reader = Append(@, ReaderJob(nops + 1, 0, FALSE, FALSE))],
           "find", 4))

\* nosql.js:778-794, 805-807, 1117-1124: upsert(doc).where('id', doc.id), a
\* first() reader that carries the document
DP_upsert ==
    /\ CanSubmit("upsert")
    /\ \E k \in 1..(MaxInitDocs + 1) :
         Install(IF readonly THEN throwReadonly(Cur, "upsert")
                 ELSE Submit([Cur EXCEPT
                        !.pending_reader =
                           Append(@, [ReaderJob(nops + 1, k, TRUE, FALSE) EXCEPT
                                        !.upsert = [id |-> k, v |-> <<"a">>]])],
                        "upsert", 4))

\* nosql.js:1075-1086
DP_find2 ==
    /\ CanSubmit("find2")
    /\ Install(Submit([Cur EXCEPT
           !.pending_reader2 = Append(@, ReaderJob(nops + 1, 0, FALSE, FALSE))],
           "find2", 11))

\* nosql.js:1088-1099
DP_stream ==
    /\ CanSubmit("stream")
    /\ Install(Submit([Cur EXCEPT
           !.pending_streamer = Append(@, [id |-> nops + 1])], "stream", 10))

\* nosql.js:1013-1019
DP_clear_ ==
    /\ CanSubmit("clear")
    /\ Install(IF readonly THEN throwReadonly(Cur, "clear")
               ELSE Submit([Cur EXCEPT
                      !.pending_clear = Append(@, [id |-> nops + 1])], "clear", 12))

\* nosql.js:1021-1027
DP_clean_ ==
    /\ CanSubmit("clean")
    /\ Install(IF readonly THEN throwReadonly(Cur, "clean")
               ELSE Submit([Cur EXCEPT
                      !.pending_clean = Append(@, [id |-> nops + 1])], "clean", 13))

\* nosql.js:1029-1035
DP_lock_ ==
    /\ CanSubmit("lock")
    /\ Install(IF readonly THEN throwReadonly(Cur, "lock")
               ELSE Submit([Cur EXCEPT
                      !.pending_locks = Append(@, [id |-> nops + 1])], "lock", 14))

\* nosql.js:985-991
DP_drop_ ==
    /\ CanSubmit("drop")
    /\ Install(IF readonly THEN throwReadonly(Cur, "drop")
               ELSE Submit([Cur EXCEPT !.pending_drops = TRUE], "drop", 7))

\* the event loop runs the oldest scheduled immediate (nosql.js:761-763,
\* 1345-1349)
Tick ==
    /\ immediates # <<>>
    /\ LET call == Head(immediates)
           s == [Cur EXCEPT !.immediates = Tail(@), !.log.ticked = TRUE]
       IN  Install(IF call.fn = "next_append" THEN next_append(s)
                   ELSE DP_next(s, call.type))

Pending(op) == {i \in 1..Len(io) : io[i].op = op}

AppendFileDone == \E i \in Pending("append") : Install(append_callback(Cur, i))
UpdateDone == \E i \in Pending("update") : Install(update_callback(Cur, i))
UpdateThrown ==
    \E i \in Pending("update") :
        /\ update_pass(Content(Cur, io[i].ino), io[i].filter).thrown # 0
        /\ Install(update_thrown(Cur, i))
RemoveDone == \E i \in Pending("remove") : Install(remove_callback(Cur, i))
ReaderDone == \E i \in Pending("reader") : Install(reader_callback(Cur, i))
Reader3Done == \E i \in Pending("reader3") : Install(reader3_callback(Cur, i))
StreamerDone == \E i \in Pending("streamer") : Install(streamer_callback(Cur, i))
ClearDone == \E i \in Pending("clear") : Install(clear_callback(Cur, i))
CleanRead == \E i \in Pending("clean") : Install(clean_read(Cur, i))
CleanDone == \E i \in Pending("rename") : Install(clean_callback(Cur, i))
LockNext == \E i \in Pending("lock") : Install(lock_next(Cur, i))
DropDone == \E i \in Pending("drop") : Install(drop_callback(Cur, i))

Next ==
    \/ DP_insert
    \/ DP_modify
    \/ DP_remove_
    \/ DP_find
    \/ DP_find2
    \/ DP_stream
    \/ DP_clear_
    \/ DP_clean_
    \/ DP_lock_
    \/ DP_drop_
    \/ Tick
    \/ AppendFileDone
    \/ UpdateDone
    \/ RemoveDone
    \/ ReaderDone
    \/ Reader3Done
    \/ StreamerDone
    \/ ClearDone
    \/ CleanRead
    \/ CleanDone
    \/ LockNext
    \/ DropDone

Spec == Init /\ [][Next]_vars

\* The event loop runs every scheduled immediate and every started I/O
\* operation completes; a lock function signals its completion.  A completion
\* handler is enabled exactly when its operation is in flight, so weak
\* fairness of a handler A of operation op, WF_vars(A), is the formula
\* []<>(Pending(op) = {}) \/ []<><<A>>_vars.
Fairness ==
    /\ WF_vars(Tick)
    /\ []<>(Pending("append") = {}) \/ []<><<AppendFileDone>>_vars
    /\ []<>(Pending("update") = {}) \/ []<><<UpdateDone>>_vars
    /\ []<>(Pending("remove") = {}) \/ []<><<RemoveDone>>_vars
    /\ []<>(Pending("reader") = {}) \/ []<><<ReaderDone>>_vars
    /\ []<>(Pending("reader3") = {}) \/ []<><<Reader3Done>>_vars
    /\ []<>(Pending("streamer") = {}) \/ []<><<StreamerDone>>_vars
    /\ []<>(Pending("clear") = {}) \/ []<><<ClearDone>>_vars
    /\ []<>(Pending("clean") = {}) \/ []<><<CleanRead>>_vars
    /\ []<>(Pending("rename") = {}) \/ []<><<CleanDone>>_vars
    /\ []<>(Pending("lock") = {}) \/ []<><<LockNext>>_vars
    /\ []<>(Pending("drop") = {}) \/ []<><<DropDone>>_vars

FairSpec == Spec /\ Fairness

NextClean ==
    \/ DP_remove_
    \/ DP_find
    \/ DP_clean_
    \/ Tick
    \/ RemoveDone
    \/ ReaderDone
    \/ CleanRead
    \/ CleanDone

SpecClean == InitClean /\ [][NextClean]_vars

\* ------------------------------------------- one pass over a file: inputs
\* Files of up to MaxLines lines; line k holds the document with id k, some
\* lines are tombstones.
FilesOver(vals) ==
    UNION {[1..n -> vals \X BOOLEAN] : n \in 0..MaxLines}

FileOf(f) ==
    <<[k \in 1..Len(f) |-> [doc |-> [id |-> k, v |-> f[k][1]], del |-> f[k][2]]]>>

UpdateFiles == {FileOf(f) : f \in FilesOver(Vals)}
ReaderFiles == {FileOf(f) : f \in FilesOver({<<"a">>})}

\* modify({v: val}) with where('id', k) or without a condition, with or
\* without first()
UpdateJob(id, filter, first, val) ==
    [id |-> id, filter |-> filter, first |-> first, val |-> val, count |-> 0,
     skip |-> FALSE, throws |-> 0, insert |-> NoDoc]

\* one modify call, or one followed by a modify of every document
UpdateBatches ==
    LET one == {<<UpdateJob(1, k, fi, val)>> :
                  k \in 0..MaxLines, fi \in BOOLEAN, val \in Vals}
    IN  one \cup {b \o <<UpdateJob(2, 0, FALSE, val)>> : b \in one, val \in Vals}

\* find(), find().first() and one() (a job without counter, nosql.js:1117-1126),
\* with where('id', k) or without a condition: one call or two
ReaderBatches ==
    LET jobs(id) == {ReaderJob(id, k, m[1], m[2]) :
                       k \in 0..(MaxLines + 1),
                       m \in {<<FALSE, FALSE>>, <<TRUE, FALSE>>, <<TRUE, TRUE>>}}
    IN  {<<j>> : j \in jobs(1)} \cup {<<j1, j2>> : j1 \in jobs(1), j2 \in jobs(2)}

NoCalls == [budget |-> 0, menu |-> {}]

InitUpdate ==
    InitDatabase(UpdateFiles, UpdateBatches, {<<>>}, {<<>>}, {<<>>}, Paths) /\ workload = NoCalls

NextUpdate ==
    \/ Tick
    \/ UpdateDone

SpecUpdate == InitUpdate /\ [][NextUpdate]_vars

InitReader ==
    InitDatabase(ReaderFiles, {<<>>}, ReaderBatches, {<<>>}, {<<>>}, Paths) /\ workload = NoCalls

NextReader ==
    \/ Tick
    \/ ReaderDone

SpecReader == InitReader /\ [][NextReader]_vars

\* find() and find().first(), with where('id', k) or without a condition:
\* one call or two
FindBatches ==
    LET jobs(id) == {ReaderJob(id, k, fi, FALSE) :
                       k \in 0..(MaxLines + 1), fi \in BOOLEAN}
    IN  {<<j>> : j \in jobs(1)} \cup {<<j1, j2>> : j1 \in jobs(1), j2 \in jobs(2)}

\* the same queries made with find2(), with the job ids that follow
Mirror(batch) ==
    [k \in 1..Len(batch) |-> [batch[k] EXCEPT !.id = @ + Len(batch)]]

\* the same queries are made with find() and with find2()
InitReverse ==
    /\ InitDatabase(ReaderFiles, {<<>>}, FindBatches,
                    {Mirror(b) : b \in FindBatches}, {<<>>}, Paths)
    /\ pending_reader2 = Mirror(pending_reader)
    /\ workload = NoCalls

NextReverse ==
    \/ Tick
    \/ ReaderDone
    \/ Reader3Done

SpecReverse == InitReverse /\ [][NextReverse]_vars

\* ---------------------------------------------- updates of boolean fields
\* the documents {s, b, c} that are inserted
BoolDocs ==
    [s : {<<>>, <<"x">>, <<"t", "r", "u", "e">>, <<":", "t", "r", "u", "e">>,
          <<"x", "\"", ":", "t", "r", "u", "e">>, <<"\\">>, <<"e_acute">>},
     b : BOOLEAN, c : BOOLEAN]

\* number of updates of the line
MaxToggles == 3

\* nosql.js:797-799: DP.insert encodes the document; $append writes the line
InsertText ==
    /\ docsbuffer = NoRec
    /\ \E doc \in BoolDocs :
         docsbuffer' = [doc |-> replace(JSON_stringify(doc)), was |-> "none",
                        updates |-> 0]
    /\ UNCHANGED <<database, counter>>

\* nosql.js:1407-1503: a modify that negates the fields of keys in the
\* document of the line (b, c or both) and writes the new text
ToggleText ==
    /\ docsbuffer # NoRec
    /\ docsbuffer.updates < MaxToggles
    /\ \E keys \in (SUBSET {"b", "c"}) \ {{}} :
         LET old == JSON_parse(docsbuffer.doc)
             doc == [old EXCEPT !.b = IF "b" \in keys THEN ~@ ELSE @,
                                !.c = IF "c" \in keys THEN ~@ ELSE @]
             upd == replace(JSON_stringify(doc))
         IN  docsbuffer' = [doc |-> upd,
                            was |-> IF inplace(docsbuffer.doc, upd)
                                    THEN "place" ELSE "moved",
                            updates |-> docsbuffer.updates + 1]
    /\ UNCHANGED <<database, counter>>

InitIdle == InitDatabase({<<>>}, {<<>>}, {<<>>}, {<<>>}, {<<>>}, Paths) /\ workload = NoCalls

NextText ==
    \/ InsertText
    \/ ToggleText

SpecText == InitIdle /\ [][NextText]_vars

\* --------------------------------------------------------------- the table
\* insert and clear are called on a table
TableWorkload == [budget |-> MaxOps + 2, menu |-> {"insert", "clear"}]

\* nosql.js:502-555: the table file holds its header, and a row or none
InitTable ==
    /\ InitDatabase({<<<<stringifySchema>>>>,
                     <<<<stringifySchema, Line([id |-> 1, v |-> <<"a">>])>>>>},
                    {<<>>}, {<<>>}, {<<>>}, {<<>>}, Paths)
    /\ workload = TableWorkload

TableClearDone == \E i \in Pending("clear") : Install(TP_clear_callback(Cur, i))
TableHeaderDone == \E i \in Pending("header") : Install(TP_clear_header(Cur, i))

NextTable ==
    \/ DP_insert
    \/ DP_clear_
    \/ Tick
    \/ AppendFileDone
    \/ TableClearDone
    \/ TableHeaderDone

SpecTable == InitTable /\ [][NextTable]_vars

\* ---------------------------------------------------------- rows of a table
\* the rows {a, b, n} that are inserted
Rows ==
    [a : {<<>>, <<"x">>, <<"|">>, <<"LF">>, <<"x", "CR">>, <<"%", "7", "C">>,
          <<"%", "0", "A", "|">>},
     b : {<<>>, <<"x">>, <<"|">>, <<"x", "LF">>, <<"%", "0", "D">>},
     n : {0, 7}]

\* nosql.js:5813-5826: TP.$append encodes the row and appends the line
EncodeRow ==
    /\ docsbuffer = NoRec
    /\ \E doc \in Rows :
         docsbuffer' = [raw |-> doc, line |-> TP_stringify(doc), obj |-> <<>>]
    /\ UNCHANGED <<database, counter>>

\* nosql.js:5896-5903: TP.$reader reads the lines of the file, which end at
\* \n, and decodes each
DecodeRow ==
    /\ docsbuffer # NoRec
    /\ docsbuffer.obj = <<>>
    /\ docsbuffer' = [docsbuffer EXCEPT
                        !.obj = <<TP_parseData(split(docsbuffer.line, "LF")[1])>>]
    /\ UNCHANGED <<database, counter>>

NextRows ==
    \/ EncodeRow
    \/ DecodeRow

SpecRows == InitIdle /\ [][NextRows]_vars

\* ------------------------------------------------------------- the counter
\* number of calls of hit, min, max, read, stats and clear
MaxCalls == 3
\* number of days
MaxDays == 2

\* the counts of hit, min and max
Counts == {0, 1, 2}

\* the calls of a behaviour: MaxCalls, and those its workload adds
CanCall == counter.calls < MaxCalls + workload.budget

\* setTimeout2(self.key, () => self.save(), self.TIMEOUT, 5): one timer
Called(c) == [c EXCEPT !.timeout = TRUE, !.calls = @ + 1]

Hit ==
    /\ CanCall
    /\ \E id \in CounterIds, count \in Counts :
         counter' = [Called(counter) EXCEPT
                       !.cache = CP_hit(@, id, count),
                       !.asked[id] = Append(@, count),
                       !.hits[id] = @ + count,
                       !.zero = @ \/ count = 0]
    /\ UNCHANGED <<database, docsbuffer>>

Min ==
    /\ CanCall
    /\ \E id \in CounterIds, count \in Counts :
         counter' = [Called(counter) EXCEPT
                       !.cache = CP_min(@, id, count)]
    /\ UNCHANGED <<database, docsbuffer>>

\* nosql.js:3441-3465: the body of CP.min
Max ==
    /\ CanCall
    /\ \E id \in CounterIds, count \in Counts \ {0} :
         counter' = [Called(counter) EXCEPT
                       !.cache = CP_min(@, id, 0 - count)]
    /\ UNCHANGED <<database, docsbuffer>>

\* nosql.js:3489-3502
Remove ==
    /\ CanCall
    /\ \E id \in CounterIds :
         counter' = [Called(counter) EXCEPT !.cache = CP_remove(@, id)]
    /\ UNCHANGED <<database, docsbuffer>>

\* read or clear is called
CounterCall ==
    /\ CanCall
    /\ \E op \in {"read", "clear"} :
         counter' = CP_start([counter EXCEPT !.calls = @ + 1], op, NoArgs)
    /\ UNCHANGED <<database, docsbuffer>>

\* the greatest top of a stats call
MaxTop == 2

\* stats(top, type) is called
Stats ==
    /\ CanCall
    /\ \E top \in 1..MaxTop, type \in {"sum", "min", "max"} :
         counter' = CP_start([counter EXCEPT !.calls = @ + 1], "stats",
                             [top |-> top, type |-> type])
    /\ UNCHANGED <<database, docsbuffer>>

\* the timer of setTimeout2 fires
Timeout ==
    /\ counter.timeout
    /\ counter' = CP_save([counter EXCEPT !.timeout = FALSE])
    /\ UNCHANGED <<database, docsbuffer>>

\* a timer of 200 ms fires: the timers fire in the order they were set
Retry ==
    /\ counter.retries # <<>>
    /\ counter' = CP_call([counter EXCEPT !.retries = Tail(@)],
                          Head(counter.retries))
    /\ UNCHANGED <<database, docsbuffer>>

\* the running operations of a kind
Running(ops) == {i \in 1..Len(counter.running) : counter.running[i].op \in ops}

SaveDone ==
    /\ \E i \in Running({"save"}) : counter' = CP_save_callback(counter, i)
    /\ UNCHANGED <<database, docsbuffer>>

ReadDone ==
    /\ \E i \in Running({"read"}) : counter' = CP_read_callback(counter, i)
    /\ UNCHANGED <<database, docsbuffer>>

StatsDone ==
    /\ \E i \in Running({"stats"}) : counter' = CP_stats_callback(counter, i)
    /\ UNCHANGED <<database, docsbuffer>>

CounterClearDone ==
    /\ \E i \in Running({"clear"}) : counter' = CP_clear_callback(counter, i)
    /\ UNCHANGED <<database, docsbuffer>>

\* NOW: the next day begins
Midnight ==
    /\ counter.day < MaxDays
    /\ counter' = [counter EXCEPT !.day = @ + 1]
    /\ UNCHANGED <<database, docsbuffer>>

NextCounter ==
    \/ Hit
    \/ Min
    \/ Max
    \/ CounterCall
    \/ Stats
    \/ Timeout
    \/ Retry
    \/ SaveDone
    \/ ReadDone
    \/ StatsDone
    \/ CounterClearDone
    \/ Midnight

SpecCounter == InitIdle /\ [][NextCounter]_vars

\* hits and removals with their flushes
NextRemove ==
    \/ Hit
    \/ Min
    \/ Remove
    \/ Timeout
    \/ Retry
    \/ SaveDone

SpecRemove == InitIdle /\ [][NextRemove]_vars

\* hits and their flushes, with one call more
InitFlush ==
    /\ InitDatabase({<<>>}, {<<>>}, {<<>>}, {<<>>}, {<<>>}, Paths)
    /\ workload = [budget |-> 1, menu |-> {}]

NextFlush ==
    \/ Hit
    \/ Timeout
    \/ Retry
    \/ SaveDone

SpecFlush == InitFlush /\ [][NextFlush]_vars

\* every timer fires and every flush that was started completes
FairFlush ==
    SpecFlush /\ WF_vars(Timeout) /\ WF_vars(Retry) /\ WF_vars(SaveDone)

\* counter files of up to MaxStats lines: sum lines of three ids and mma
\* lines of two, in any order, each with one bucket
MaxStats == 3

StatsFiles ==
    LET line(key, head) ==
            [key |-> key, head |-> head, days |-> <<[dt |-> 1, val |-> head]>>]
        lines == {line(<<"sum", id>>, Number(n)) :
                    id \in {"p", "q", "r"}, n \in 1..3}
                 \cup {line(<<"mma", id>>, Object(<<n, n + 1>>)) :
                         id \in {"p", "q"}, n \in 1..2}
    IN  {f \in UNION {[1..k -> lines] : k \in 0..MaxStats} :
           \A i, j \in 1..Len(f) : f[i].key = f[j].key => i = j}

InitStats ==
    /\ InitDatabase({<<>>}, {<<>>}, {<<>>}, {<<>>}, StatsFiles, Paths)
    /\ workload = NoCalls

NextStats ==
    \/ Stats
    \/ Retry
    \/ StatsDone

SpecStats == InitStats /\ [][NextStats]_vars

\* values of the field f of the documents of a scalar query
FieldVals == {<<0 - 1>>, <<0>>, <<1>>, <<>>}

\* files whose documents [id, v, f] carry the field f
ScalarFiles ==
    {<<[k \in 1..Len(f) |->
          [doc |-> [id |-> k, v |-> <<"a">>, f |-> f[k][1]], del |-> f[k][2]]]>> :
       f \in FilesOver(FieldVals)}

\* nosql.js:1105-1107, 2843-2849: find().scalar(type, 'f')
ScalarJob(id, filter, type) ==
    [ReaderJob(id, filter, FALSE, FALSE) EXCEPT !.scalar = type]

\* one scalar call, with where('id', k) or without a condition
ScalarBatches ==
    {<<ScalarJob(1, k, type)>> :
       k \in 0..(MaxLines + 1),
       type \in {"count", "sum", "min", "max", "group"}}

InitScalar ==
    InitDatabase(ScalarFiles, {<<>>}, ScalarBatches, {<<>>}, {<<>>}, Paths) /\ workload = NoCalls

SpecScalar == InitScalar /\ [][NextReader]_vars

\* ------------------------------------------------------- passes in progress
WriterOps == {"append", "update", "remove"}
ReaderOps == {"reader", "reader3", "streamer"}
WaitOps == {"clear", "clean", "rename", "lock", "drop"}

InFlight(ops) == {i \in 1..Len(io) : io[i].op \in ops}

\* an append pass whose last batch is written is over when next_append runs
AppendsEnding == {i \in 1..Len(immediates) : immediates[i].fn = "next_append"}

WritersInFlight == Cardinality(InFlight(WriterOps)) + Cardinality(AppendsEnding)
ReadersInFlight == Cardinality(InFlight(ReaderOps))

\* the waiting jobs in progress, each named by the first job of its batch
WaitKey(pass) ==
    <<IF pass.op = "rename" THEN "clean" ELSE pass.op,
      IF pass.filter = <<>> THEN 0 ELSE pass.filter[1].id>>
WaitInFlight == {WaitKey(io[i]) : i \in InFlight(WaitOps)}

\* this step has started a pass of one of these kinds
StartedIn(ops) == \E op \in ops : log'.started[op] > log.started[op]

\* ------------------------------------------------------------------- claims

\* C1 (as stated): no writing pass ($writting) is in progress at the same
\* time as a reading pass ($reading).
C1_NoReadWriteOverlap == ~(writting /\ reading)

\* C1 (amended): a clear, clean, drop or lock job is started only when no
\* writing pass and no reading pass is in progress; a writing pass and a
\* reading pass may overlap.
C1_WaitJobStartsIdle ==
    [][StartedIn({"clear", "clean", "lock", "drop"})
         => /\ ~writting' /\ ~reading'
            /\ InFlight(WriterOps \cup ReaderOps)' = {}
            /\ AppendsEnding' = {}]_vars

C1_Witness ==
    /\ log.started["reader"] = 1
    /\ log.started["clean"] = 1
    /\ InFlight({"clean"}) # {}
    /\ called[1] = 1

\* C2 (as stated): while a clear, clean, drop or lock job is in progress (from
\* its start until its completion step), no append, update, remove, reader,
\* reverse-reader or stream pass is started.
C2_WaitJobBlocksPasses ==
    [][(WaitInFlight \cap WaitInFlight' # {})
         => ~StartedIn(WriterOps \cup ReaderOps)]_vars

\* C3: at most one writing pass (append, update, remove) and at most one
\* reading pass (reader, reverse reader, stream) is in flight at any time.
C3_OneWriterOneReader ==
    /\ WritersInFlight <= 1
    /\ ReadersInFlight <= 1
    /\ writting <=> (WritersInFlight = 1)
    /\ reading <=> (ReadersInFlight = 1)

C3_Witness ==
    /\ InFlight({"update"}) # {}
    /\ pending_remove # <<>>
    /\ InFlight({"reader"}) # {}
    /\ immediates = <<>>

Quiescent == immediates = <<>> /\ io = <<>>

ForwardRead == LiveDocs(Content(Cur, cur))

\* the calls made so far are all of these kinds
OnlyKinds(K) == \A j \in 1..Len(log.kind) : log.kind[j] \in K

\* C5 (as stated): as long as no call that takes documents out of the file
\* or changes them (update, remove, clear, drop) is submitted, a forward read
\* of the file yields the content the file had at first, followed by the
\* documents inserted so far in submission order, none left out in between;
\* when the database is at rest all of them are in the file.
C5_AppendsInOrder ==
    OnlyKinds({"insert", "find", "find2", "stream", "lock", "clean"}) =>
      \E n \in 0..Len(log.inserted) :
        /\ ForwardRead = log.initial \o SubSeq(log.inserted, 1, n)
        /\ Quiescent => n = Len(log.inserted)

\* C6: when N <= JSONBUFFER inserts are all submitted before the first tick
\* and nothing else is submitted, at most one append pass is started, and it
\* makes one appendFile call with the N documents in submission order; at
\* rest exactly that one call has been made.
C6_OneAppendFile ==
    (log.burst /\ nops >= 1 /\ nops <= JSONBUFFER) =>
      /\ log.started["append"] <= 1
      /\ log.appends \in {<<>>, <<log.inserted>>}
      /\ Quiescent => /\ log.appends = <<log.inserted>>
                      /\ log.started["append"] = 1
                      /\ ForwardRead = log.initial \o log.inserted

C6_Witness ==
    /\ log.burst
    /\ nops = JSONBUFFER
    /\ Quiescent
    /\ log.appends = <<log.inserted>>
    /\ \A j \in 1..nops : called[j] = 1

\* ------------------------------------------------------------ an update pass
\* this step is the completion of the update pass
UpdateEnds == Pending("update") # {} /\ Pending("update")' = {}

\* the lines the pass has appended that hold the document of line k
Appended(k) ==
    {m \in (Len(inodes[cur]) + 1)..Len(inodes'[cur]) :
       inodes'[cur][m].doc.id = inodes[cur][k].doc.id}

\* line k is as it was
Untouched(k) == inodes'[cur][k] = inodes[cur][k] /\ Appended(k) = {}

\* line k holds a new encoding of its document
Rewritten(k) ==
    /\ ~inodes'[cur][k].del
    /\ inodes'[cur][k].doc # inodes[cur][k].doc
    /\ inodes'[cur][k].doc.id = inodes[cur][k].doc.id
    /\ Appended(k) = {}

\* line k is a tombstone of the old encoding and the new encoding is one
\* live line after the lines the file had
Moved(k) ==
    /\ inodes'[cur][k] = [inodes[cur][k] EXCEPT !.del = TRUE]
    /\ \E m \in Appended(k) :
         /\ Appended(k) = {m}
         /\ ~inodes'[cur][m].del
         /\ inodes'[cur][m].doc # inodes[cur][k].doc

\* the new encoding of the document of line k, rewritten or moved
NewEncoding(k) ==
    IF Appended(k) = {} THEN stringify(inodes'[cur][k].doc)
    ELSE stringify(inodes'[cur][CHOOSE m \in Appended(k) : TRUE].doc)

SameBytes(k) ==
    ByteLength(NewEncoding(k)) = ByteLength(stringify(inodes[cur][k].doc))

SameChars(k) == Len(NewEncoding(k)) = Len(stringify(inodes[cur][k].doc))

LiveLines(lines) == Len(SelectSeq(lines, LAMBDA l : ~l.del))

\* C7 (as stated): an update pass leaves a live line as it was, or writes the
\* new encoding in its place when the byte lengths are equal, or else makes
\* the line a tombstone and appends the new encoding; the number of live
\* lines does not change.
C7_InPlaceIffSameBytes ==
    [][UpdateEnds =>
         /\ \A k \in 1..Len(inodes[cur]) :
              IF inodes[cur][k].del THEN Untouched(k)
              ELSE \/ Untouched(k)
                   \/ Rewritten(k) /\ SameBytes(k)
                   \/ Moved(k) /\ ~SameBytes(k)
         /\ LiveLines(inodes'[cur]) = LiveLines(inodes[cur])]_vars

\* C7 (amended): the new encoding is written in place when it has both the
\* character length and the byte length of the old one; in every other case
\* the line is made a tombstone and the new encoding is appended; the number
\* of live lines does not change.
C7_InPlaceIffSameLength ==
    [][UpdateEnds =>
         /\ \A k \in 1..Len(inodes[cur]) :
              IF inodes[cur][k].del THEN Untouched(k)
              ELSE \/ Untouched(k)
                   \/ Rewritten(k) /\ SameBytes(k) /\ SameChars(k)
                   \/ Moved(k) /\ ~(SameBytes(k) /\ SameChars(k))
         /\ LiveLines(inodes'[cur]) = LiveLines(inodes[cur])]_vars

\* the pass is over: a document whose new encoding has the bytes but not the
\* characters of the old one was moved to the end of the file, and another
\* one was rewritten in place
C7_Witness ==
    /\ Quiescent
    /\ \A j \in 1..nops : called[j] = 1
    /\ Len(inodes[cur]) = 3
    /\ inodes[cur][1].del
    /\ inodes[cur][1].doc.v = <<"e_acute">>
    /\ inodes[cur][2] = Line([id |-> 2, v |-> <<"a", "a">>])
    /\ inodes[cur][3] = Line([id |-> 1, v |-> <<"a", "a">>])
    /\ log.initial = <<[id |-> 1, v |-> <<"e_acute">>],
                       [id |-> 2, v |-> <<"b", "b">>]>>

\* ------------------------------------------------------------- a clean job
\* this step is the rename that ends a clean job
CleanEnds == Pending("rename") # {} /\ Pending("rename")' = {}

\* C8 (as stated): a reader enqueued after the callback of a remove is not
\* handed a document which that remove has matched.
C8_RemovedNotDelivered ==
    \A j \in 1..nops :
      {result[j].docs[i].id : i \in 1..Len(result[j].docs)} \cap log.goneat[j] = {}

\* C9 (as stated): the rename that ends a clean job leaves a file without
\* tombstones that holds every document that was live in the file at the
\* database's path, in the same order.
C9_CleanKeepsLive ==
    [][CleanEnds =>
         /\ \A k \in 1..Len(inodes'[cur']) : ~inodes'[cur'][k].del
         /\ ForwardRead' = ForwardRead]_vars

\* ------------------------------------------------------------ a reader pass
\* this step is the completion of the reader pass
ReaderEnds == Pending("reader") # {} /\ Pending("reader")' = {}

\* the live documents of the file that a job's condition matches
Matches(job) ==
    SelectSeq(ForwardRead, LAMBDA d : compare(job.filter, d))

\* the jobs of the reader pass in flight
ReaderJobs ==
    UNION {{io[i].filter[k] : k \in 1..Len(io[i].filter)} : i \in Pending("reader")}

MatchedVals(job) ==
    LET m == SelectSeq(Matches(job), LAMBDA d : d.f # <<>>)
    IN  [i \in 1..Len(m) |-> m[i].f[1]]

RECURSIVE SumOf(_)
SumOf(vals) == IF vals = <<>> THEN 0 ELSE Head(vals) + SumOf(Tail(vals))

\* the map from each value to the number of documents carrying it
GroupOf(vals) ==
    [v \in Range(vals) |-> Cardinality({i \in 1..Len(vals) : vals[i] = v})]

\* C11 (as stated): a scalar reader of type count delivers the number of
\* matching documents, of type sum the sum of their values of f, of type
\* group the map from each value of f to the number of matching documents
\* that carry it.
C11_CountSumGroup ==
    [][ReaderEnds =>
         \A job \in ReaderJobs :
           LET out == result'[job.id].scalar IN
           /\ job.scalar = "count" => out = Number(Len(Matches(job)))
           /\ job.scalar = "sum" => out = Number(SumOf(MatchedVals(job)))
           /\ job.scalar = "group" =>
                /\ out.def /\ out.obj
                /\ DOMAIN out.map = Range(MatchedVals(job))
                /\ \A v \in DOMAIN out.map : out.map[v] = GroupOf(MatchedVals(job))[v]]_vars

\* C12 (as stated): when a matching document carries f, a scalar reader of
\* type min delivers the least and of type max the greatest value of f among
\* the matching documents.
C12_MinMax ==
    [][ReaderEnds =>
         \A job \in ReaderJobs :
           LET out == result'[job.id].scalar
               vals == Range(MatchedVals(job))
           IN  vals # {} =>
                 /\ job.scalar = "min" =>
                      out = Number(CHOOSE v \in vals : \A w \in vals : v <= w)
                 /\ job.scalar = "max" =>
                      out = Number(CHOOSE v \in vals : \A w \in vals : v >= w)]_vars

\* ------------------------------------------------------------ reverse reads
\* the number of times d occurs in docs
Occurs(d, docs) == Cardinality({i \in 1..Len(docs) : docs[i] = d})

\* the live documents that the condition of job j matches, in file order
MatchesOf(j) == SelectSeq(ForwardRead, LAMBDA d : compare(log.where[j], d))

\* C13: when the same queries have been made with find() and find2() on one
\* file, a query without first() got the same documents (each as many
\* times) and the same count from both, and a first() query made with
\* find2() got the last matching document of the file.
C13_ReverseSameAsForward ==
    (Quiescent /\ pending_reader = <<>> /\ pending_reader2 = <<>>) =>
      \A j \in 1..(nops \div 2) :
        (log.kind[j] = "find" /\ log.kind[j + nops \div 2] = "find2") =>
          LET fw == result[j]
              rv == result[j + nops \div 2]
          IN  IF j \in log.first
              THEN /\ rv.docs = <<>>
                   /\ rv.doc = IF MatchesOf(j) = <<>> THEN NoDoc
                               ELSE MatchesOf(j)[Len(MatchesOf(j))]
              ELSE /\ fw.docs = MatchesOf(j)
                   /\ Len(rv.docs) = Len(fw.docs)
                   /\ \A d \in Range(fw.docs) \cup Range(rv.docs) :
                        Occurs(d, rv.docs) = Occurs(d, fw.docs)
                   /\ rv.count = fw.count

\* a find() and a find().first() without condition and their find2() twins
\* have run over a file of two live documents
C13_Witness ==
    /\ Quiescent
    /\ nops = 4
    /\ \A j \in 1..4 : called[j] = 1
    /\ log.first = {2, 4}
    /\ Len(ForwardRead) = 2
    /\ result[1].docs = ForwardRead
    /\ result[3].docs = <<ForwardRead[2], ForwardRead[1]>>
    /\ result[2].doc = ForwardRead[1]
    /\ result[4].doc = ForwardRead[2]

\* --------------------------------------------------------- boolean updates
\* C14: an update that only negates boolean fields of a document writes the
\* new text over the old one, and the text keeps its length in bytes.
C14_ToggleInPlace ==
    [][ToggleText =>
         /\ docsbuffer'.was = "place"
         /\ ByteLength(docsbuffer'.doc) = ByteLength(docsbuffer.doc)]_vars

\* ------------------------------------------------------------- the counter
\* the lines of the counter file with a key
LinesOf(file, key) == SelectSeq(file, LAMBDA l : l.key = key)

\* the value of the bucket of a day in a line, 0 if absent
BucketOf(line, dt) ==
    LET today == SelectSeq(line.days, LAMBDA d : d.dt = dt)
    IN  IF today = <<>> THEN 0 ELSE today[1].val.num

\* C15: when a flush completes, the line sum<year><id> of every id that was
\* hit since the cache was last taken has the head it had before plus the
\* sum of the counts of the hits, and the bucket of the day of the flush has
\* its former value (0 if absent) plus that sum; an id without a line gets
\* one line with that sum as head and as its only bucket.
C15_HitsAdded ==
    [][(SaveDone /\ counter'.type = 0) =>
         LET job == counter.running[1] IN
         \A id \in CounterIds : job.asked[id] # <<>> =>
           LET old == LinesOf(counter.file, <<"sum", id>>)
               new == LinesOf(counter'.file, <<"sum", id>>)
               n   == SumOf(job.asked[id])
           IN  /\ Len(new) = 1
               /\ new[1].head =
                    Number((IF old = <<>> THEN 0 ELSE old[1].head.num) + n)
               /\ BucketOf(new[1], job.dt) =
                    (IF old = <<>> THEN 0 ELSE BucketOf(old[1], job.dt)) + n
               /\ old = <<>> => Len(new[1].days) = 1]_vars

\* the least and the greatest of a non-empty set of numbers
Least(S) == CHOOSE x \in S : \A y \in S : x <= y
Greatest(S) == CHOOSE x \in S : \A y \in S : x >= y

\* C16: the head of every line of the counter file is the reduction of the
\* buckets of the line: their sum in a sum line, the least of their minima
\* and the greatest of their maxima in an mma line.
C16_HeadIsReduction ==
    \A i \in 1..Len(counter.file) :
      LET line == counter.file[i]
          vals == [k \in 1..Len(line.days) |-> line.days[k].val]
      IN  IF line.key[1] = "sum"
          THEN line.head = Number(SumOf([k \in 1..Len(vals) |-> vals[k].num]))
          ELSE line.head =
                 Object(<<Least({vals[k].map[1] : k \in 1..Len(vals)}),
                          Greatest({vals[k].map[2] : k \in 1..Len(vals)})>>)

\* after two flushes: a sum line, and an mma line with the buckets of two
\* days, the first with the lesser minimum
C16_Witness ==
    /\ counter.type = 0
    /\ \E i, j \in 1..Len(counter.file) :
         /\ counter.file[i].key[1] = "sum"
         /\ counter.file[i].head.num > 0
         /\ counter.file[j].key[1] = "mma"
         /\ Len(counter.file[j].days) = 2
         /\ counter.file[j].head.map[1] < counter.file[j].days[2].val.map[1]

\* C17: at most one of save, read, stats and clear is under way on the
\* counter file, and then the flag is set; a call made while the flag is set
\* starts nothing, leaves the file as it is and waits 200 ms to be made
\* again; a call starts an operation only when the flag is 0.
C17_OneCounterOperation ==
    [][/\ Len(counter'.running) <= 1
       /\ counter'.running # <<>> => counter'.type # 0
       /\ ((CounterCall \/ Stats \/ Timeout \/ Retry) /\ counter.type # 0) =>
            /\ counter'.running = counter.running
            /\ counter'.file = counter.file
            /\ counter'.retries # <<>>
            /\ Len(counter'.retries) >= Len(counter.retries)
       /\ Len(counter'.running) > Len(counter.running) => counter.type = 0]_vars

\* while a read is under way, a save and a stats call wait to be made again
C17_Witness ==
    /\ Len(counter.running) = 1
    /\ counter.running[1].op = "read"
    /\ counter.type = 2
    /\ Len(counter.retries) = 2
    /\ counter.retries[1].op = "save"
    /\ counter.retries[2].op = "stats"

\* the ids of the lines of a type in the counter file, each with the
\* aggregate that stats(top, type) ranks it by
Aggregates(file, type) ==
    {[id |-> file[i].key[2],
      count |-> IF type = "sum" THEN file[i].head.num
                ELSE counter_minmax(type, file[i].head)] :
       i \in {i \in 1..Len(file) :
                file[i].key[1] = IF type = "sum" THEN "sum" ELSE "mma"}}

\* C18: stats(top, type) delivers the top ids of the greatest aggregate (of
\* the least one for type min) in the order of their aggregates: as many
\* entries as there are ids, up to top, each an id of the file with its
\* aggregate, ordered, and no id left out ranks before a delivered one.
C18_StatsTop ==
    [][StatsDone =>
         LET args    == counter.running[1].args
             all     == Aggregates(counter.file, args.type)
             out     == counter'.output
             a \prec b == IF args.type = "min" THEN a < b ELSE a > b
         IN  /\ Len(out) = IF Cardinality(all) < args.top
                           THEN Cardinality(all) ELSE args.top
             /\ \A i \in 1..Len(out) : out[i] \in all
             /\ \A i, j \in 1..Len(out) :
                  /\ i < j => ~(out[j].count \prec out[i].count)
                  /\ out[i].id = out[j].id => i = j
             /\ \A e \in all \ Range(out) :
                  \A i \in 1..Len(out) : ~(e.count \prec out[i].count)]_vars

\* --------------------------------------------------------------- table rows
\* C19: the row decoded from the line that encodes a row is that row.
C19_RowRoundTrip ==
    [][DecodeRow => docsbuffer'.obj = <<docsbuffer.raw>>]_vars

\* -------------------------------------------------------------------- table
\* C20: when an append pass of a table has written to the table file, the
\* first line of the file is the schema header; so it is when no call is
\* left to serve.
C20_HeaderFirst ==
    [][/\ AppendFileDone => (cur' # 0 /\ inodes'[cur'][1] = stringifySchema)
       /\ Quiescent' => (cur' # 0 /\ inodes'[cur'][1] = stringifySchema)]_vars

\* ------------------------------------------------------------ lock batches
\* inserts and reads around locks
LockWorkload == [budget |-> MaxOps + 2, menu |-> {"insert", "find", "lock"}]

InitLock ==
    InitDatabase(InitFiles, {<<>>}, {<<>>}, {<<>>}, {<<>>}, Paths) /\ workload = LockWorkload

NextLock ==
    \/ DP_insert
    \/ DP_find
    \/ DP_lock_
    \/ Tick
    \/ AppendFileDone
    \/ ReaderDone
    \/ LockNext

SpecLock == InitLock /\ [][NextLock]_vars

\* the jobs of the passes that this step has put in flight
JobsStarted ==
    UNION {{job.id : job \in Range(io'[i].filter)} :
             i \in {i \in 1..Len(io') :
                      /\ io'[i].op \in WriterOps \cup ReaderOps \cup WaitOps
                      /\ io'[i] \notin Range(io)}}

\* C21 (as stated): from the start of the first function of a lock batch to
\* the completion signal of its last function, no pass is started that takes
\* a job enqueued in the meantime.
C21_LockHoldsScheduler ==
    [][(InFlight({"lock"}) # {} /\ InFlight({"lock"})' # {})
         => \A j \in JobsStarted : j <= log.lockat]_vars

\* ------------------------------------------------------ read-only databases
\* The database is opened on a path or on a URL, with or without the
\* readonly argument of the constructor, and the calls that write are made.
Opened == [filename : {"path", "http"}, readonly : BOOLEAN]

WriteKinds == {"insert", "update", "remove", "clear", "clean", "lock", "drop"}

InitReadonly ==
    /\ InitDatabase(InitFiles, {<<>>}, {<<>>}, {<<>>}, {<<>>}, Opened)
    /\ workload = [budget |-> MaxOps, menu |-> WriteKinds]

NextReadonly ==
    \/ DP_insert
    \/ DP_modify
    \/ DP_remove_
    \/ DP_clear_
    \/ DP_clean_
    \/ DP_lock_
    \/ DP_drop_
    \/ Tick
    \/ AppendFileDone
    \/ UpdateDone
    \/ RemoveDone
    \/ ClearDone
    \/ CleanRead
    \/ CleanDone
    \/ LockNext
    \/ DropDone

SpecReadonly == InitReadonly /\ [][NextReadonly]_vars

\* the queues and the flags of the scheduler
Queues ==
    <<pending_append, pending_update, pending_remove, pending_reader,
      pending_reader2, pending_streamer, pending_clean, pending_clear,
      pending_locks, pending_drops, step, writting, reading, immediates, io>>

\* C22 (as stated): on a database opened read-only, by a URL or by the
\* readonly argument, every call of insert, update, modify, remove, clear,
\* clean, lock and drop throws the read-only error, enqueues nothing and
\* leaves the queues and the flags as they were.
C22_ReadonlyRejects ==
    [][(/\ readonly \/ log.flag
        /\ nops' = nops + 1
        /\ log'.kind[nops'] \in WriteKinds)
         => nops' \in log'.thrown /\ Queues' = Queues]_vars

\* ------------------------------------------------ filter functions that throw
\* modify({v: 'aa'}) with filter(fn), where fn throws on the document with
\* id k (0: on none): one call, or one followed by a modify of every document
ThrowBatches ==
    LET one == {<<[UpdateJob(1, f, FALSE, <<"a", "a">>) EXCEPT !.throws = k]>> :
                  f \in 0..1, k \in 0..MaxLines}
    IN  one \cup {b \o <<UpdateJob(2, 0, FALSE, <<"b">>)>> : b \in one}

InitThrow ==
    /\ InitDatabase(ReaderFiles, ThrowBatches, {<<>>}, {<<>>}, {<<>>}, Paths)
    /\ workload = [budget |-> MaxOps + 1, menu |-> {"insert", "find"}]

\* A session in which a filter function has thrown either ends there
\* (UpdateThrown) or is ended by the stream all the same (UpdateDone).
NextThrow ==
    \/ DP_insert
    \/ DP_find
    \/ Tick
    \/ AppendFileDone
    \/ ReaderDone
    \/ UpdateDone
    \/ UpdateThrown

SpecThrow == InitThrow /\ [][NextThrow]_vars

\* C23 (as stated): after a filter function has thrown in a pass, the callback
\* of the job that supplied it has been invoked, the pass's flag is cleared
\* and the scheduler drains the queues: at rest no flag is set, no job is
\* left in a queue and every job has been called.
C23_ThrowDoesNotPoison ==
    (log.threw # {} /\ Quiescent) =>
      /\ ~writting /\ ~reading
      /\ \A j \in log.threw : called[j] = 1
      /\ pending_append = <<>> /\ pending_update = <<>> /\ pending_reader = <<>>
      /\ \A j \in 1..nops : called[j] = 1

\* ------------------------------------------------------------------ listings
\* number of lines of a file that is listed
MaxListed == 4

ListedFiles ==
    {FileOf(f) : f \in UNION {[1..n -> {<<"a">>} \X BOOLEAN] : n \in 0..MaxListed}}

\* nosql.js:1051-1062, 3113-3116, 3149-3152: listing().take(t).skip(s), with
\* where('id', k) or without a condition
ListingJob(id, filter, take, skip) ==
    [ReaderJob(id, filter, FALSE, FALSE) EXCEPT
       !.listing = TRUE, !.take = take, !.skip = skip]

\* one listing, alone or behind a find()
ListingBatches ==
    LET one == {<<ListingJob(1, k, t, sk)>> :
                  k \in 0..1, t \in 1..(MaxListed - 1), sk \in 0..MaxListed}
    IN  one \cup {<<ReaderJob(1, 0, FALSE, FALSE),
                    [b[1] EXCEPT !.id = 2]>> : b \in one}

InitListing ==
    /\ InitDatabase(ListedFiles, {<<>>}, ListingBatches, {<<>>}, {<<>>}, Paths)
    /\ workload = NoCalls

SpecListing == InitListing /\ [][NextReader]_vars

\* the listings of the reader pass in flight
ListingJobs == {job \in ReaderJobs : job.listing}

\* C24: a listing with take t > 0 and skip s over n matching documents, without
\* sort, delivers count = n, limit = t, pages = the least p with p * t >= n
\* (0 for n = 0), page = s / t + 1 and as items the matches s + 1 to
\* min(s + t, n) in file order.
C24_ListingPage ==
    [][ReaderEnds =>
         \A job \in ListingJobs :
           LET out == result'[job.id].listing
               M == Matches(job)
               n == Len(M)
               t == job.take
               sk == job.skip
               last == IF sk + t < n THEN sk + t ELSE n
           IN  /\ called'[job.id] = 1
               /\ out.count = n
               /\ result'[job.id].count = n
               /\ out.limit = t
               /\ out.pages * t >= n
               /\ out.pages = 0 \/ (out.pages - 1) * t < n
               /\ out.page[1] * t = (sk + t) * out.page[2]
               /\ out.items = SubSeq(M, sk + 1, last)]_vars

\* a listing made behind a find() has delivered the second of the two pages
\* of the three live documents of a file of four lines
C24_Witness ==
    /\ called[2] = 1
    /\ result[2].listing.limit = 2
    /\ result[2].listing.page = <<4, 2>>
    /\ result[2].listing.pages = 2
    /\ result[2].listing.count = 3
    /\ Len(result[2].listing.items) = 1
    /\ Len(ForwardRead) = 3
    /\ Len(inodes[cur]) = 4

\* ------------------------------------------------------ the order of passes
\* the queues in the order in which DP.next looks at them, by their pass
PassOrder ==
    <<"clear", "clean", "drop", "lock", "append", "update", "remove", "reader",
      "reader3", "streamer">>

\* the passes that have jobs waiting
Waiting ==
    {k \in 1..Len(PassOrder) :
       CASE PassOrder[k] = "clear" -> pending_clear # <<>>
         [] PassOrder[k] = "clean" -> pending_clean # <<>>
         [] PassOrder[k] = "drop" -> pending_drops
         [] PassOrder[k] = "lock" -> pending_locks # <<>>
         [] PassOrder[k] = "append" -> pending_append # <<>>
         [] PassOrder[k] = "update" -> pending_update # <<>>
         [] PassOrder[k] = "remove" -> pending_remove # <<>>
         [] PassOrder[k] = "reader" -> pending_reader # <<>>
         [] PassOrder[k] = "reader3" -> pending_reader2 # <<>>
         [] PassOrder[k] = "streamer" -> pending_streamer # <<>>}

\* the passes that this step has started
StartedNow == {op \in PassOps : log'.started[op] > log.started[op]}

\* a scheduled call of DP.next runs while no pass is in progress and step is 0
IdleTick ==
    /\ immediates # <<>>
    /\ SubSeq(immediates', 1, Len(immediates) - 1) = Tail(immediates)
    /\ nops' = nops
    /\ io = <<>> /\ ~writting /\ ~reading
    /\ step = 0

\* C25: a scheduling tick with no pass in progress and step 0 starts the pass
\* of the first non-empty queue in the order clear, clean, drop, lock, append,
\* update, remove, reader, reverse reader, stream, and no other pass.
C25_FirstQueueInOrder ==
    [][IdleTick =>
         StartedNow = {PassOrder[k] : k \in {k \in Waiting :
                                              \A m \in Waiting : k <= m}}]_vars

\* an append pass has been started by the first tick, with an update and a
\* read waiting
C25_Witness ==
    /\ log.started = [op \in PassOps |-> IF op = "append" THEN 1 ELSE 0]
    /\ Len(io) = 1 /\ io[1].op = "append"
    /\ pending_update # <<>>
    /\ pending_reader # <<>>
    /\ step = 1

\* ---------------------------------------------------- one pass per queue
\* the queue whose jobs a pass in flight has taken
QueueOf(pass) == IF pass.op = "rename" THEN "clean" ELSE pass.op

\* the number of passes in flight for a queue
PassesOf(op) ==
    Cardinality({i \in 1..Len(io) : QueueOf(io[i]) = op})
      + (IF op = "append" THEN Cardinality(AppendsEnding) ELSE 0)

\* C26 (as stated): at no time are two passes for the same queue in progress;
\* two clean passes, two clear passes or two lock batches never overlap.
C26_OnePassPerQueue == \A op \in PassOps : PassesOf(op) <= 1

\* ------------------------------------------------- updates with first()
\* modify({v: val}) with where('id', k) or without a condition, with or
\* without first(): one call or two
FirstBatches ==
    LET jobs(id) == {UpdateJob(id, k, fi, val) :
                       k \in 0..2, fi \in BOOLEAN, val \in {<<"b">>, <<"a", "a">>}}
    IN  {<<j>> : j \in jobs(1)} \cup {<<j1, j2>> : j1 \in jobs(1), j2 \in jobs(2)}

InitFirst ==
    /\ InitDatabase(ListedFiles, FirstBatches, {<<>>}, {<<>>}, {<<>>}, Paths)
    /\ workload = NoCalls

SpecFirst == InitFirst /\ [][NextUpdate]_vars

\* the jobs of the update pass in flight, in the order of their calls
UpdateJobs == io[CHOOSE i \in Pending("update") : TRUE].filter

\* the live lines of the file whose document a job's condition matches
MatchedLines(job) ==
    {k \in 1..Len(inodes[cur]) :
       ~inodes[cur][k].del /\ compare(job.filter, inodes[cur][k].doc)}

\* the jobs that have to change the document of line k: those that match
\* it, a first() job only when no earlier line matches it
Applying(k) ==
    {i \in 1..Len(UpdateJobs) :
       /\ k \in MatchedLines(UpdateJobs[i])
       /\ UpdateJobs[i].first => \A m \in MatchedLines(UpdateJobs[i]) : k <= m}

\* the value of the document of line k after the pass
ValueAfter(k) ==
    LET at == CHOOSE m \in 1..Len(inodes'[cur]) :
                /\ ~inodes'[cur][m].del
                /\ inodes'[cur][m].doc.id = inodes[cur][k].doc.id
    IN  inodes'[cur][at].doc.v

\* C27: in a batched update pass a first() job changes its first match in
\* file order and no other document, a job without first() changes every
\* document it matches, and the jobs of a batch are applied to a document in
\* the order of their calls.
C27_FirstUpdatesOne ==
    [][UpdateEnds =>
         \A k \in 1..Len(inodes[cur]) :
           ~inodes[cur][k].del =>
             ValueAfter(k) =
               IF Applying(k) = {} THEN inodes[cur][k].doc.v
               ELSE UpdateJobs[CHOOSE i \in Applying(k) :
                                 \A m \in Applying(k) : m <= i].val]_vars

\* after a modify of every document and a modify with first(), the first of
\* three documents has the value of the second call, the others that of the
\* first call
C27_Witness ==
    /\ Quiescent
    /\ called[1] = 1 /\ called[2] = 1
    /\ Len(log.initial) = 3
    /\ {<<d.id, d.v>> : d \in Range(ForwardRead)} =
         {<<log.initial[1].id, <<"b">>>>, <<log.initial[2].id, <<"a", "a">>>>,
          <<log.initial[3].id, <<"a", "a">>>>}

\* ------------------------------------------------ updates that may insert
\* the document that call id inserts when its update matches nothing
Fallback(id) == [id |-> 10 + id, v |-> <<"b">>]

\* modify({v: 'aa'}) or modify({v: 'aa'}, fallback), with where('id', k) or
\* without a condition, with or without first(): one call or two
FallbackBatches ==
    LET jobs(id) == {[UpdateJob(id, k, fi, <<"a", "a">>) EXCEPT !.insert = d] :
                       k \in 0..(MaxLines + 1), fi \in BOOLEAN,
                       d \in {NoDoc, Fallback(id)}}
    IN  {<<j>> : j \in jobs(1)} \cup {<<j1, j2>> : j1 \in jobs(1), j2 \in jobs(2)}

InitFallback ==
    /\ InitDatabase(ReaderFiles, FallbackBatches, {<<>>}, {<<>>}, {<<>>}, Paths)
    /\ workload = NoCalls

NextFallback ==
    \/ Tick
    \/ UpdateDone
    \/ AppendFileDone

SpecFallback == InitFallback /\ [][NextFallback]_vars

\* the append jobs that are waiting or being written, after this step
Appending ==
    Range(pending_append')
      \cup UNION {Range(io'[i].filter) : i \in Pending("append")'}

\* the number of documents a job has to change
MatchCount(job) ==
    IF job.first /\ MatchedLines(job) # {} THEN 1
    ELSE Cardinality(MatchedLines(job))

\* C28: at the end of an update pass the fallback document of a job is
\* enqueued as an append exactly when the job has one and matched nothing,
\* and then the pass does not call the job's callback: the completion of the
\* insert does; every other job's callback is called by the pass with the
\* match count.  Every callback is called once.
C28_FallbackInserted ==
    /\ [][UpdateEnds =>
            \A k \in 1..Len(UpdateJobs) :
              LET job == UpdateJobs[k]
                  inserts == {a \in Appending : a.id = job.id}
              IN  IF job.insert # NoDoc /\ MatchedLines(job) = {}
                  THEN /\ inserts = {[id |-> job.id, doc |-> job.insert]}
                       /\ called'[job.id] = called[job.id]
                  ELSE /\ inserts = {}
                       /\ called'[job.id] = called[job.id] + 1
                       /\ result'[job.id].count = MatchCount(job)]_vars
    /\ [][\A i \in Pending("append") :
            i \notin Pending("append")' =>
              \A a \in Range(io[i].filter) : called'[a.id] = called[a.id] + 1]_vars
    /\ [](\A j \in 1..MaxJobs : called[j] <= 1)

\* of two updates with a fallback document the first has matched nothing and
\* its document is in the file, the second has changed the two documents;
\* both callbacks have been called
C28_Witness ==
    /\ Quiescent
    /\ called[1] = 1 /\ called[2] = 1
    /\ result[2].count = 2
    /\ Fallback(1) \in Range(ForwardRead)
    /\ Fallback(2) \notin Range(ForwardRead)
    /\ Len(ForwardRead) = 3

\* ------------------------------------------------- modify with operators
\* A number is a fraction <<numerator, denominator>> in lowest terms, with a
\* positive denominator; a field is <<number>>, or <<>> when it is missing.

\* nosql.js:1443-1458: the switch on item.inc[key], from the field of the
\* document and the value of the modify to the new value of the field
modify_inc(inc, field, val) ==
    LET RECURSIVE gcd(_, _)
        gcd(a, b) == IF b = 0 THEN a ELSE gcd(b, a % b)
        abs(a) == IF a < 0 THEN 0 - a ELSE a
        Fraction(n, d) ==
            LET g == gcd(abs(n), abs(d))
                sign == IF d < 0 THEN 0 - 1 ELSE 1
            IN  <<sign * (n \div g), sign * (d \div g)>>
        \* output[key] || 0
        old == IF field = <<>> THEN <<0, 1>> ELSE field[1]
        sum == Fraction(old[1] * val[2] + val[1] * old[2], old[2] * val[2])
    IN  CASE inc = "+" -> sum
          [] inc = "-" ->
               Fraction(old[1] * val[2] - val[1] * old[2], old[2] * val[2])
          [] inc = "*" -> sum
          [] inc = "/" -> Fraction(old[1] * val[2], old[2] * val[1])

\* number of modify calls on the document
MaxModifies == 2

\* the field k of the document that is inserted
Fields == {<<>>, <<<<0, 1>>>>, <<<<1, 1>>>>, <<<<2, 1>>>>, <<<<0 - 3, 1>>>>}

\* the values of the modify calls
Operands == {<<0 - 1, 1>>, <<2, 1>>, <<3, 1>>}

\* nosql.js:797-800: a document {k}, or one without k, is inserted
InsertNumber ==
    /\ docsbuffer = NoRec
    /\ \E field \in Fields :
         docsbuffer' = [k |-> field, old |-> <<>>, inc |-> "", val |-> <<0, 1>>,
                        updates |-> 0]
    /\ UNCHANGED <<database, counter>>

\* nosql.js:819-849, 1436-1461: modify({'+k': val}), and likewise with -, *
\* and /, on the document
ModifyNumber ==
    /\ docsbuffer # NoRec
    /\ docsbuffer.updates < MaxModifies
    /\ \E inc \in {"+", "-", "*", "/"}, val \in Operands :
         docsbuffer' = [k |-> <<modify_inc(inc, docsbuffer.k, val)>>,
                        old |-> docsbuffer.k, inc |-> inc, val |-> val,
                        updates |-> docsbuffer.updates + 1]
    /\ UNCHANGED <<database, counter>>

NextModify ==
    \/ InsertNumber
    \/ ModifyNumber

SpecModify == InitIdle /\ [][NextModify]_vars

\* C29 (as stated): a modify with '+k': v sets k to old + v, with '-k': v to
\* old - v, with '*k': v to old * v and with '/k': v to old / v, where a
\* missing old value is 0.
C29_ModifyOperators ==
    [][ModifyNumber =>
         LET new == docsbuffer'.k[1]
             old == IF docsbuffer.k = <<>> THEN <<0, 1>> ELSE docsbuffer.k[1]
             v == docsbuffer'.val
         IN  CASE docsbuffer'.inc = "+" ->
                    new[1] * old[2] * v[2] = (old[1] * v[2] + v[1] * old[2]) * new[2]
               [] docsbuffer'.inc = "-" ->
                    new[1] * old[2] * v[2] = (old[1] * v[2] - v[1] * old[2]) * new[2]
               [] docsbuffer'.inc = "*" ->
                    new[1] * old[2] * v[2] = old[1] * v[1] * new[2]
               [] docsbuffer'.inc = "/" ->
                    new[1] * old[2] * v[1] = old[1] * v[2] * new[2]]_vars

\* -------------------------------------------------------------- inline sort
\* number of lines of a file that is read with a sort field
MaxSorted == 3

\* files whose documents carry a number in the field f, in every order
SortedFiles ==
    {<<[k \in 1..Len(f) |->
          [doc |-> [id |-> k, v |-> <<"a">>, f |-> <<f[k][1]>>],
           del |-> f[k][2]]]>> :
       f \in UNION {[1..n -> (0..(MaxSorted - 1)) \X BOOLEAN] :
                      n \in 0..MaxSorted}}

\* nosql.js:1064-1073, 3113-3116, 3149-3152, 3172-3183:
\* find().sort('f', desc).take(t).skip(s)
SortJob(id, sort, take, skip) ==
    [ReaderJob(id, 0, FALSE, FALSE) EXCEPT
       !.sort = sort, !.take = take, !.skip = skip]

SortBatches ==
    {<<SortJob(1, sort, t, sk)>> :
       sort \in {"asc", "desc"}, t \in 1..(MaxSorted - 1),
       sk \in 0..(MaxSorted - 1)}

InitSort ==
    /\ InitDatabase(SortedFiles, {<<>>}, SortBatches, {<<>>}, {<<>>}, Paths)
    /\ workload = NoCalls

SpecSort == InitSort /\ [][NextReader]_vars

\* the readers with take and a sort field of the reader pass in flight
SortJobs == {job \in ReaderJobs : job.sort # "none" /\ job.take # 0}

\* the number of matches whose sort value comes before x, and the number of
\* those whose value does not come after x, in the direction of the job
RankBelow(job, x) ==
    LET M == Matches(job)
    IN  Cardinality({m \in 1..Len(M) :
                       IF job.sort = "asc" THEN M[m].f[1] < x ELSE M[m].f[1] > x})

RankUpTo(job, x) ==
    LET M == Matches(job)
    IN  Cardinality({m \in 1..Len(M) :
                       IF job.sort = "asc" THEN M[m].f[1] <= x ELSE M[m].f[1] >= x})

\* the buffer of the job after the first k documents of the file
BufferAfter(job, k) ==
    reader_scan(SubSeq(ForwardRead, 1, k), FALSE, 1,
                [filter |-> <<job>>, stop |-> FALSE]).filter[1].response

\* C30 (as stated): a reader with take t, skip s and a sort field is handed,
\* for every order in which the documents are read, the entries s + 1 to
\* s + t of all matches sorted by the field in the requested direction (the
\* i-th value handed over has the rank s + i among the matches), and its
\* buffer never holds more than t + s documents.
C30_InlineSortedPage ==
    [][ReaderEnds =>
         \A job \in SortJobs :
           LET out == result'[job.id].docs
               n == Len(Matches(job))
               to == IF job.skip + job.take < n THEN job.skip + job.take ELSE n
           IN  /\ called'[job.id] = 1
               /\ Len(out) = (IF to > job.skip THEN to - job.skip ELSE 0)
               /\ \A i \in 1..Len(out) :
                     /\ RankBelow(job, out[i].f[1]) < job.skip + i
                     /\ job.skip + i <= RankUpTo(job, out[i].f[1])
               /\ \A k \in 0..Len(ForwardRead) :
                     Len(BufferAfter(job, k)) <= job.take + job.skip]_vars

\* ------------------------------------------------- the predicate of a builder
\* number of calls made on a builder
MaxBuilder == 4

\* The statements of builder.$code:
\*   "test":   $is=doc.name==arg.key;
\*   "ortest": if(!$is){$is=doc.name==arg.key;}
\*   "return": if(!$is)return;
\*   "reset":  $is=false;
Statement(op, name, value) == [op |-> op, name |-> name, value |-> value]

\* nosql.js:2583-2596: a new builder.  called, outside and groups record the
\* calls made: the conditions given outside an or group and the conditions
\* of every or group.
NewBuilder ==
    [code |-> <<>>, scope |-> 0, called |-> <<>>, outside |-> {}, groups |-> <<>>]

\* nosql.js:2886-2918: where(name, value)
where(b, name, value) ==
    IF b.scope # 0
    THEN [b EXCEPT !.code = Append(@, Statement("ortest", name, value))]
    ELSE [b EXCEPT !.code = @ \o <<Statement("test", name, value),
                                    Statement("return", "", 0)>>]

\* nosql.js:3238-3242
or(b) == [b EXCEPT !.code = Append(@, Statement("reset", "", 0)), !.scope = 1]

\* nosql.js:3244-3248
end(b) == [b EXCEPT !.scope = 0, !.code = Append(@, Statement("return", "", 0))]

\* nosql.js:3250-3254
and(b) == [b EXCEPT !.code = Append(@, Statement("reset", "", 0)), !.scope = 0]

\* nosql.js:3186-3195: the function compile() makes of $code, applied to
\* doc: TRUE when it returns the document
compile(code, doc) ==
    LET full == IF code # <<>> /\ code[Len(code)].op # "return"
                THEN Append(code, Statement("return", "", 0)) ELSE code
        run[i \in 1..(Len(full) + 1), is \in BOOLEAN] ==
            IF i > Len(full) THEN TRUE
            ELSE LET st == full[i]
                 IN  CASE st.op = "test" -> run[i + 1, doc[st.name] = st.value]
                       [] st.op = "ortest" ->
                            run[i + 1, IF ~is THEN doc[st.name] = st.value ELSE is]
                       [] st.op = "reset" -> run[i + 1, FALSE]
                       [] st.op = "return" -> IF ~is THEN FALSE ELSE run[i + 1, is]
    IN  run[1, FALSE]

\* the documents a predicate is applied to, and the conditions of where
BuilderDocs == [a : 0..1, b : 0..1]

Conditions == {"a", "b"} \X (0..1)

CanBuild == "code" \in DOMAIN docsbuffer /\ Len(docsbuffer.called) < MaxBuilder

Build ==
    /\ docsbuffer = NoRec
    /\ docsbuffer' = NewBuilder
    /\ UNCHANGED <<database, counter>>

\* where() is called inside or outside of an or group
Where ==
    /\ CanBuild
    /\ \E c \in Conditions :
         docsbuffer' =
           [where(docsbuffer, c[1], c[2]) EXCEPT
              !.called = Append(@, "where"),
              !.outside = IF docsbuffer.scope = 0 THEN @ \cup {c} ELSE @,
              !.groups = IF docsbuffer.scope = 0 THEN @
                         ELSE [@ EXCEPT ![Len(@)] = @ \cup {c}]]
    /\ UNCHANGED <<database, counter>>

\* or() opens a group after the conditions and the closed groups so far
Or ==
    /\ CanBuild
    /\ docsbuffer.scope = 0
    /\ docsbuffer' = [or(docsbuffer) EXCEPT !.called = Append(@, "or"),
                                            !.groups = Append(@, {})]
    /\ UNCHANGED <<database, counter>>

\* end() closes the open group
End ==
    /\ CanBuild
    /\ docsbuffer.scope = 1
    /\ docsbuffer' = [end(docsbuffer) EXCEPT !.called = Append(@, "end")]
    /\ UNCHANGED <<database, counter>>

\* and() closes the open group
And ==
    /\ CanBuild
    /\ docsbuffer.scope = 1
    /\ docsbuffer' = [and(docsbuffer) EXCEPT !.called = Append(@, "and")]
    /\ UNCHANGED <<database, counter>>

NextBuilder ==
    \/ Build
    \/ Where
    \/ Or
    \/ End
    \/ And

SpecBuilder == InitIdle /\ [][NextBuilder]_vars

\* the condition c = <<name, value>> holds on doc
Holds(c, doc) == doc[c[1]] = c[2]

\* C31 (as stated): the compiled predicate of a builder assembled from where
\* conditions and or()/and()/end() scopes returns the document if and only if
\* every condition outside an or group holds and every or group has a
\* condition that holds, whether the group is closed by end(), by and() or
\* left open at compile time.
C31_PredicateOfScopes ==
    "code" \in DOMAIN docsbuffer =>
      \A doc \in BuilderDocs :
        compile(docsbuffer.code, doc) <=>
          /\ \A c \in docsbuffer.outside : Holds(c, doc)
          /\ \A g \in 1..Len(docsbuffer.groups) :
                \E c \in docsbuffer.groups[g] : Holds(c, doc)

\* ----------------------------------------------------- the line of a table row
\* the text holds one of the bytes that are escaped
NeedsEscape(val) == \E i \in 1..Len(val) : val[i] \in {"|", "LF", "CR"}

\* C32 (as stated): the line of a row of the schema a:string|b:string|n:number
\* holds one '|' for each of the three columns and no raw CR or LF; its
\* marker is '*' when a string cell holds '|', CR or LF, and '+' otherwise.
C32_RowSeparators ==
    "line" \in DOMAIN docsbuffer =>
      LET line == docsbuffer.line
          doc == docsbuffer.raw
      IN  /\ Cardinality({i \in 1..Len(line) : line[i] = "|"}) = 3
          /\ \A i \in 1..Len(line) : line[i] \notin {"LF", "CR"}
          /\ line[1] = (IF NeedsEscape(doc.a) \/ NeedsEscape(doc.b) THEN "*"
                        ELSE "+")

\* -------------------------------------------------- removal from the counter
\* C33 (as stated): when a flush completes whose cache holds the mark of
\* remove(id) and no hit, min or max of that id, the counter file has no line
\* of that id.
C33_RemovedIdHasNoLine ==
    [][(SaveDone /\ counter'.type = 0) =>
         LET job == counter.running[1] IN
         \A id \in CounterIds :
           (/\ job.cache.val[<<"", id>>] = null
            /\ job.cache.val[<<"sum", id>>] = undefined
            /\ job.cache.val[<<"mma", id>>] = undefined) =>
             \A i \in 1..Len(counter'.file) : counter'.file[i].key[2] # id]_vars

\* ------------------------------------------------------------------ the drop
\* C34 (as stated): when a drop has completed, no call was made since and the
\* scheduler is at rest, the data file does not exist, whatever was pending
\* or submitted when the drop ran.
C34_DroppedFileStaysGone ==
    (Quiescent /\ log.dropat = nops) => cur = 0

\* ---------------------------------------------------------------- upserts
UpsertWorkload == [budget |-> MaxOps + 1, menu |-> {"upsert"}]

InitUpsert ==
    /\ InitDatabase(InitFiles, {<<>>}, {<<>>}, {<<>>}, {<<>>}, Paths)
    /\ workload = UpsertWorkload

NextUpsert ==
    \/ DP_upsert
    \/ Tick
    \/ ReaderDone
    \/ AppendFileDone

SpecUpsert == InitUpsert /\ [][NextUpsert]_vars

\* C35 (as stated): of the documents that the upserts with one uniqueness
\* filter carry, at most one is in the data file.
C35_UpsertInsertsOnce ==
    \A k \in 1..(MaxInitDocs + 1) :
      Cardinality({i \in 1..Len(ForwardRead) : ForwardRead[i].id = k}) <= 1

\* ------------------------------------------------------ hits during a flush
\* no timer is set, no save waits to be made again and no flush is under way
FlushesDone ==
    ~counter.timeout /\ counter.retries = <<>> /\ counter.running = <<>>

\* the head of the line sum<year><id> of every id is the sum of the counts
\* of its hits (the file was empty at first; an id without hits has no line)
HitsOnDisk ==
    \A id \in CounterIds :
      LET lines == LinesOf(counter.file, <<"sum", id>>)
      IN  IF counter.hits[id] = 0 THEN lines = <<>>
          ELSE Len(lines) = 1 /\ lines[1].head = Number(counter.hits[id])

\* C36 (as stated): every hit, also one recorded while a flush is in progress
\* or waits on the flag, is merged by a later flush and merged once: whenever
\* all scheduled flushes have completed, the head of every sum line is the
\* sum of the counts of all the hits made, and in the end it is so for good
\* (hits with the count 0, the matter of C15, left aside).
C36_HitsDuringFlushKept ==
    /\ [](FlushesDone /\ ~counter.zero => HitsOnDisk)
    /\ <>[](~counter.zero => HitsOnDisk)

\* C37 (as stated): a flush that starts has a cache to merge, and the flag
\* is 0 again when no flush is under way.
C37_SaveHasCache ==
    /\ \A i \in Running({"save"}) : ~counter.running[i].cache.null
    /\ counter.running = <<>> => counter.type = 0

\* ------------------------------------------------- readers that share a pass
\* C38 (as stated): every reader of a forward pass is handed the response
\* and the count that it is handed when it is the only reader of a pass
\* over the same file.
C38_ReaderAloneOrBatched ==
    [][ReaderEnds =>
         \A job \in ReaderJobs :
           result'[job.id] = reader2(ForwardRead, <<job>>)[1]]_vars

\* ------------------------------------------------- the counts of a remove pass
RemoveWorkload == [budget |-> MaxOps, menu |-> {"remove"}]

InitRemoves ==
    /\ InitDatabase(ReaderFiles, {<<>>}, {<<>>}, {<<>>}, {<<>>}, Paths)
    /\ workload = RemoveWorkload

NextRemoves ==
    \/ DP_remove_where
    \/ Tick
    \/ RemoveDone

SpecRemoves == InitRemoves /\ [][NextRemoves]_vars

\* this step is the completion of the remove pass
RemoveEnds == Pending("remove") # {} /\ Pending("remove")' = {}

\* the jobs of the remove pass in flight, in the order of their submission
RemoveJobs == io[CHOOSE i \in Pending("remove") : TRUE].filter

\* the lines that the pass tombstones whose first matching job is job j
TombstonedBy(j) ==
    LET lines == Content(Cur, cur)
    IN  {k \in 1..Len(lines) :
           /\ ~lines[k].del
           /\ inodes'[cur'][k].del
           /\ compare(RemoveJobs[j].filter, lines[k].doc)
           /\ \A i \in 1..(j - 1) : ~compare(RemoveJobs[i].filter, lines[k].doc)}

\* C39 (as stated): in a remove pass every job is handed the number of the
\* lines tombstoned by the pass of which it is the first matching job in
\* submission order, with or without a backup; the counts sum to the number
\* of lines tombstoned.
C39_RemoveCounts ==
    [][RemoveEnds =>
         /\ \A j \in 1..Len(RemoveJobs) :
              /\ called'[RemoveJobs[j].id] = called[RemoveJobs[j].id] + 1
              /\ result'[RemoveJobs[j].id].count = Cardinality(TombstonedBy(j))
         /\ SumOf([j \in 1..Len(RemoveJobs) |-> result'[RemoveJobs[j].id].count])
              = Cardinality({k \in 1..Len(inodes[cur]) :
                               ~inodes[cur][k].del /\ inodes'[cur'][k].del})]_vars

\* ------------------------------------------------------ the scheduler at rest
\* every pending queue is empty and no pass is in progress: none is under
\* way and neither $writting nor $reading is set
NothingToDo ==
    /\ pending_append = <<>> /\ pending_update = <<>> /\ pending_remove = <<>>
    /\ pending_reader = <<>> /\ pending_reader2 = <<>>
    /\ pending_streamer = <<>> /\ pending_clean = <<>>
    /\ pending_clear = <<>> /\ pending_locks = <<>> /\ ~pending_drops
    /\ io = <<>> /\ ~writting /\ ~reading

\* step is 0 and no call of next() is scheduled
AtRest == step = 0 /\ immediates = <<>>

\* C40: once every pending queue is empty and no pass is in progress, the
\* scheduler comes to rest (step 0, no call of next() scheduled) after
\* finitely many calls of next(), unless a new job is submitted before; and
\* when the calls of a behaviour have all been made, it stays at rest.
C40_SchedulerComesToRest ==
    /\ NothingToDo ~> (~NothingToDo \/ AtRest)
    /\ <>[](NothingToDo => AtRest)

\* the scheduler is at rest after it has served an insert and a read and
\* has made the calls of next() that found nothing to start
C40_Witness ==
    /\ NothingToDo
    /\ AtRest
    /\ nops = workload.budget
    /\ log.ticked
    /\ \A j \in 1..nops : called[j] = 1
    /\ \E j \in 1..nops : log.kind[j] = "find"

====
